---- MODULE Spec2Model ----
(***************************************************************************)
(* The debug session of adapter2 (src/adapter2/src/debug_session.rs) as a  *)
(* state machine: one action per DAP request handler, the outbound message *)
(* queue, the deferred launch responder, the breakpoint indexes and the    *)
(* registry, and the part of the debugger engine the handlers drive.       *)
(***************************************************************************)
EXTENDS Integers, Sequences, FiniteSets, TLC

\* ------------------------------------------------------------------ bounds
\* Number of inbound requests of one session that the model explores.
MaxSeq == 4
\* Longest breakpoint list of one setBreakpoints / setFunctionBreakpoints.
MaxReqs == 2
\* Number of inbound requests of a session that inspects the stopped
\* inferior: initialize, launch, configurationDone and what follows.
MaxVarSeq == 6
\* Engine events delivered in the event sessions, and requests handled there.
MaxEvents == 4
MaxEventSeq == 4
\* displaySettings requests of one session.
MaxDisplays == 2
\* Characters between the prefix and the suffix of a probed expression.
MaxExprLen == 2
\* Breakpoint requests of a session that changes conditions.
MaxCondReqs == 3
\* Breakpoint hits of one session.
MaxHits == 2
\* Width of the integers that stand for the i64 of stackTrace's arguments.
IntBits == 8
\* Free slots of the outbound channel when the session is constructed; the
\* channel is made by the session's caller.
Capacity == 64
\* Breakpoint events of a session that only sets breakpoints.
MaxBpEvents == 1
\* Requests of a session that launches with command lists.
MaxLaunchSeq == 5
\* Launch requests of such a session.
MaxLaunches == 2

\* ------------------------------------------------------------ input domains
None == << >>
Some(x) == << x >>

\* Thread ids the engine may report and the front-end may name.
ThreadIds == {1, 2}
\* The orders in which a HashSet of thread ids may be iterated.
ThreadOrders == {<<1, 2>>, <<2, 1>>}
\* Number of valid frames of every thread of the stopped inferior.
NumFrames == 2
\* Source files named by setBreakpoints, as <<directory, file name>>.
Files == {<<"a", "f.c">>, <<"b", "f.c">>}
\* Lines named by setBreakpoints.
Lines == {10, 20}
\* Function breakpoint names, as character sequences ("m" and "/re m").
FnNames == {<<"m">>, <<"/", "r", "e", " ", "m">>}
\* Breakpoint conditions, as character sequences ("/nat c", "/py c", "c").
CondNative == <<"/", "n", "a", "t", " ", "c">>
CondPython == <<"/", "p", "y", " ", "c">>
CondSimple == <<"c">>
Conditions == {None, Some(CondNative), Some(CondPython), Some(CondSimple)}

VARIABLES
    outbound,               \* send_message: the outbound ProtocolMessage queue
    room,                   \* messages the channel takes before try_send fails
    request_seq,            \* the seq of the session's next own request
    aborted,                \* a handler panicked: the session task is gone
    debugger,               \* MustInitialize<SBDebugger>: TRUE = Initialized
    target,                 \* MustInitialize<SBTarget>
    process,                \* MustInitialize<SBProcess>
    process_launched,
    exit_commands,          \* None or Some(commands): run by disconnect
    on_configuration_done,  \* None or Some([seq, args]) : the deferred responder
    source_breakpoints,     \* file -> (line -> breakpoint id)
    fn_breakpoints,         \* name -> breakpoint id
    breakpoints,            \* breakpoint id -> BreakpointInfo
    var_refs,               \* HandleTree<Container>
    engine_bps,             \* the target's live breakpoints, id -> engine record
    engine_next_bp,         \* the id the target gives its next breakpoint
    engine_threads,         \* thread ids of the inferior
    process_calls,          \* the calls made on the process and its threads
    shutdown,               \* CancellationSource: cancellation was requested
    global_format,          \* display settings
    show_disassembly,       \* None = auto, Some(TRUE), Some(FALSE)
    deref_pointers,
    container_summary,
    known_threads,          \* thread ids the front-end was told about
    loaded_modules,         \* modules whose notification is deferred
    engine_calls,           \* calls made on the engine: commands, evaluations, ...
    engine_events,          \* the engine events handled so far
    engine_selected,        \* the process's selected thread (0: none)
    responder_runs,         \* seqs of the deferred responders invoked so far
    received                \* the requests taken so far; the i-th has seq i

vars == << outbound, room, request_seq, aborted, debugger, target, process, process_launched,
           exit_commands,
           on_configuration_done, source_breakpoints, fn_breakpoints,
           breakpoints, var_refs, engine_bps, engine_next_bp, engine_threads,
           process_calls, shutdown, global_format, show_disassembly,
           deref_pointers, container_summary, known_threads, loaded_modules,
           engine_calls, engine_events, engine_selected, responder_runs,
           received >>

display_state == << global_format, show_disassembly, deref_pointers,
                    container_summary >>
event_state == << known_threads, loaded_modules, engine_calls, engine_events,
                  engine_selected >>

\* Everything the session owns except the outbound queue.
session_state == << debugger, target, process, process_launched, exit_commands, request_seq,
                    on_configuration_done, source_breakpoints, fn_breakpoints,
                    breakpoints, var_refs, shutdown, display_state,
                    event_state >>
engine_state == << engine_bps, engine_next_bp, engine_threads, process_calls >>

EmptyMap == [x \in {} |-> 0]
MapPut(f, k, v) == [x \in (DOMAIN f) \cup {k} |-> IF x = k THEN v ELSE f[x]]
Range(f) == {f[x] : x \in DOMAIN f}

\* ---------------------------------------------------------------- messages
Ok(body, data) == [ok |-> TRUE, body |-> body, data |-> data, err |-> None]
Err(kind, text) == [ok |-> FALSE, body |-> "", data |-> None,
                    err |-> Some([kind |-> kind, text |-> text])]

\* format!("{}", err): the text the error carries.
ErrorDisplay(err) == err.text

ResponseMsg(seq, result) ==
    IF result.ok
    THEN [type |-> "response", request_seq |-> seq, success |-> TRUE,
          message |-> None, body |-> Some(result.body), data |-> result.data]
    ELSE [type |-> "response", request_seq |-> seq, success |-> FALSE,
          message |-> Some(ErrorDisplay(result.err[1])), body |-> None,
          data |-> None]

EventMsg(body, data) ==
    [type |-> "event", request_seq |-> 0, success |-> TRUE,
     message |-> None, body |-> Some(body), data |-> data]

\* A Request of the session to the front-end, under the session's own seq.
RequestMsg(seq, body, data) ==
    [type |-> "request", request_seq |-> seq, success |-> TRUE,
     message |-> None, body |-> Some(body), data |-> data]

\* The outbound channel as a handler finds and leaves it: q, the messages
\* sent so far; room, how many more it takes; panicked, whether a send
\* failed, which unwinds the handler so that nothing is sent after it.
NewChannel(q, free) == [q |-> q, room |-> free, panicked |-> FALSE]

\* send_message.try_send(message).map_err(|err| panic!(..))
try_send(ch, message) ==
    IF ch.panicked THEN ch
    ELSE IF ch.room = 0 THEN [ch EXCEPT !.panicked = TRUE]
    ELSE [q |-> Append(ch.q, message), room |-> ch.room - 1, panicked |-> FALSE]

send_response(out, seq, result) == try_send(out, ResponseMsg(seq, result))
send_event(out, body, data) == try_send(out, EventMsg(body, data))
send_request(out, seq, body, data) == try_send(out, RequestMsg(seq, body, data))

\* ------------------------------------------------------------- HandleTree
\* create(parent, key, value): allocate the next handle.
HandleTreeNew == [next |-> 1, entries |-> EmptyMap]
HandleTreeCreate(tree, parent, key, value) ==
    [next |-> tree.next + 1,
     entries |-> MapPut(tree.entries, tree.next,
                        [parent |-> parent, key |-> key, value |-> value])]
HandleTreeReset(tree) == [next |-> 1, entries |-> EmptyMap]
\* get(handle): the value stored under the handle, if any.
HandleTreeGet(tree, handle) ==
    IF handle \in DOMAIN tree.entries THEN Some(tree.entries[handle].value)
    ELSE None

\* A resume that leaves the handles of the last stop in place.
before_resume_skipped(tree) == tree

before_resume(tree) == HandleTreeReset(tree)

Init ==
    /\ outbound = << >>
    /\ room = Capacity
    /\ request_seq = 1
    /\ aborted = FALSE
    /\ debugger = FALSE
    /\ target = FALSE
    /\ process = FALSE
    /\ process_launched = FALSE
    /\ exit_commands = None
    /\ on_configuration_done = None
    /\ source_breakpoints = EmptyMap
    /\ fn_breakpoints = EmptyMap
    /\ breakpoints = EmptyMap
    /\ var_refs = HandleTreeNew
    /\ engine_bps = EmptyMap
    /\ engine_next_bp = 1
    /\ engine_threads = {}
    /\ process_calls = << >>
    /\ shutdown = FALSE
    /\ global_format = "Default"
    /\ show_disassembly = None
    /\ deref_pointers = TRUE
    /\ container_summary = TRUE
    /\ known_threads = {}
    /\ loaded_modules = << >>
    /\ engine_calls = << >>
    /\ engine_events = << >>
    /\ engine_selected = 0
    /\ responder_runs = << >>
    /\ received = << >>

\* The request handled by the last step, and the seq of the next one.
last ==
    IF received = << >> THEN [cmd |-> "none", seq |-> 0, args |-> None]
    ELSE [cmd |-> received[Len(received)].cmd, seq |-> Len(received),
          args |-> received[Len(received)].args]
next_seq == Len(received) + 1

\* A request is taken from the transport: the session is alive, the client
\* numbers its requests 1, 2, 3, ... (the next-state relations bound seq).
Receive(cmd, seq, args) ==
    /\ ~aborted
    /\ seq = next_seq
    /\ received' = Append(received, [cmd |-> cmd, args |-> args])

\* A panic inside a handler unwinds the session task: nothing more is sent
\* and no later message is handled. Besides unimplemented!(), unwrap() and
\* expect(), this is what a use of a NotInitialized debugger, target or
\* process comes to: the handlers use the dereferenced handle directly
\* (self.process.threads()), so the dereference has no error to return.
Panic ==
    /\ aborted' = TRUE
    /\ UNCHANGED << outbound, room, session_state, engine_state, responder_runs >>

\* A panic at the first use of the NotInitialized process in a handler that
\* has called before_resume: the handles are gone, the rest is as it was.
PanicAfterReset(tree) ==
    /\ aborted' = TRUE
    /\ var_refs' = tree
    /\ UNCHANGED << outbound, room, debugger, target, process, process_launched,
                    exit_commands, request_seq, on_configuration_done,
                    source_breakpoints, fn_breakpoints, breakpoints, shutdown,
                    display_state, event_state, engine_state, responder_runs >>

\* The channel at the start of a step, and the step's effect on it: the
\* messages that went out, the room left, and the panic of a failed send.
Channel == NewChannel(outbound, room)
Sent(ch) ==
    /\ outbound' = ch.q
    /\ room' = ch.room
    /\ aborted' = ch.panicked

\* The receiver of the outbound channel falls behind or goes away while
\* the session is between two messages: the channel takes only n more.
channel_fills(n) ==
    /\ ~aborted
    /\ n < room
    /\ room' = n
    /\ UNCHANGED << outbound, aborted, session_state, engine_state,
                    responder_runs, received >>

\* handle_request's tail: send_response(request.seq, result).
Respond(seq, result) == Sent(send_response(Channel, seq, result))

\* ------------------------------------------------------- request handlers
\* initialize: construct the debugger and reply with the capabilities.
handle_initialize(seq) ==
    /\ Receive("initialize", seq, None)
    /\ debugger' = TRUE
    /\ Respond(seq, Ok("initialize", None))
    /\ UNCHANGED << target, process, process_launched,
                    exit_commands, request_seq, on_configuration_done,
                    source_breakpoints, fn_breakpoints, breakpoints, var_refs,
                    shutdown, display_state, event_state, engine_state, responder_runs >>

\* Launch arguments the model distinguishes: whether args.source_map is
\* absent, well-formed or rejected by SourceMap::new. The command lists,
\* display_settings, terminal and stdio of the arguments are absent.
LaunchArgs == [source_map : {"absent", "valid", "invalid"}]

\* An optional command list of the launch arguments: a field the record
\* does not have is an absent one.
commands_of(args, field) == IF field \in DOMAIN args THEN args[field] ELSE None

\* exec_commands: each command is handed to the command interpreter, in
\* order; calls is the log of the calls made on the engine.
exec_commands(calls, commands) ==
    IF commands = None THEN calls
    ELSE calls \o [i \in 1..Len(commands[1]) |->
                      [call |-> "command", cmd |-> commands[1][i]]]

\* A launch that answers at once instead of deferring its reply.
launch_messages_eager(out, seq) ==
    send_response(send_event(out, "initialized", None), seq, Ok("launch", None))

\* What a launch whose target was created puts on the outbound queue.
launch_messages(out, seq) == send_event(out, "initialized", None)

\* The deferred responder of a launch or attach request, with its seq.
deferred_responder(seq, args) == Some([seq |-> seq, args |-> args])

\* launch: create the target, emit `initialized`, stash the responder.
\* created: whether the engine's create_target succeeded.
handle_launch(seq, args, created) ==
    /\ Receive("launch", seq, args)
    /\ IF ~debugger
       THEN Panic                       \* create_target dereferences self.debugger
       ELSE IF ~created
       THEN /\ Respond(seq, Err("SBError", "create_target failed"))
            /\ engine_calls' = exec_commands(engine_calls,
                                             commands_of(args, "init_commands"))
            /\ UNCHANGED << debugger, target, process, process_launched,
                            exit_commands, request_seq, on_configuration_done,
                            source_breakpoints, fn_breakpoints, breakpoints,
                            var_refs, shutdown, display_state, known_threads,
                            loaded_modules, engine_events, engine_selected,
                            engine_state, responder_runs >>
       ELSE /\ engine_calls' = exec_commands(engine_calls,
                                             commands_of(args, "init_commands"))
            /\ target' = TRUE
            /\ engine_bps' = EmptyMap   \* a new target has no breakpoints
            /\ engine_next_bp' = 1
            /\ LET ch == launch_messages(Channel, seq)
               IN  /\ Sent(ch)         \* a failed send unwinds handle_launch
                   /\ on_configuration_done' =
                          IF ch.panicked THEN on_configuration_done
                          ELSE deferred_responder(seq, args)
            /\ UNCHANGED << debugger, process, process_launched,
                            exit_commands, request_seq, source_breakpoints, fn_breakpoints,
                            breakpoints, var_refs, shutdown, display_state,
                            known_threads, loaded_modules, engine_events,
                            engine_selected, engine_threads, process_calls,
                            responder_runs >>

\* attach: handle_attach is unimplemented!().
handle_attach(seq) ==
    /\ Receive("attach", seq, None)
    /\ Panic

\* ------------------------------------------------------- display settings
\* Display settings that take the arguments' defaults where one is absent.
update_display_settings_reset(args, settings) ==
    [global_format |->
        IF args.display_format \in {None, Some("Auto")} THEN "Default"
        ELSE args.display_format[1],
     show_disassembly |->
        IF args.show_disassembly \in {None, Some("Auto")} THEN None
        ELSE Some(args.show_disassembly[1] = "Always"),
     deref_pointers |->
        IF args.dereference_pointers = None THEN TRUE
        ELSE args.dereference_pointers[1],
     container_summary |->
        IF args.container_summary = None THEN TRUE
        ELSE args.container_summary[1]]

\* update_display_settings: the settings after the arguments are applied.
update_display_settings(args, settings) ==
    [global_format |->
        IF args.display_format = None THEN settings.global_format
        ELSE IF args.display_format = Some("Auto") THEN "Default"
        ELSE args.display_format[1],
     show_disassembly |->
        IF args.show_disassembly = None THEN settings.show_disassembly
        ELSE IF args.show_disassembly = Some("Auto") THEN None
        ELSE Some(args.show_disassembly[1] = "Always"),
     deref_pointers |->
        IF args.dereference_pointers = None THEN settings.deref_pointers
        ELSE args.dereference_pointers[1],
     container_summary |->
        IF args.container_summary = None THEN settings.container_summary
        ELSE args.container_summary[1]]

\* The session's display settings as one record.
display_settings ==
    [global_format |-> global_format, show_disassembly |-> show_disassembly,
     deref_pointers |-> deref_pointers, container_summary |-> container_summary]

\* A launch that runs post_run_commands before launching the process.
launch_calls_post_first(calls, args, launched) ==
    LET post == exec_commands(calls, commands_of(args, "post_run_commands"))
    IN  Append(post, [call |-> "launch", ok |-> launched])

\* The engine calls of a launch whose source map was accepted:
\* target.launch and, when it succeeded, post_run_commands.
launch_calls(calls, args, launched) ==
    LET tried == Append(calls, [call |-> "launch", ok |-> launched])
    IN  IF launched
        THEN exec_commands(tried, commands_of(args, "post_run_commands"))
        ELSE tried

\* An optional field of the launch arguments: a field the record does
\* not have is an absent one.
optional_of(args, field) == IF field \in DOMAIN args THEN args[field] ELSE None

\* run_in_vscode_terminal: the runInTerminal Request for a terminal kind.
run_in_terminal(kind) ==
    [kind |-> IF kind = "External" THEN "external" ELSE "integrated",
     title |-> "Debuggee", newline_first |-> kind = "Integrated"]

\* The session fields complete_launch reads and writes, as one record.
LaunchState ==
    [process |-> process, process_launched |-> process_launched,
     exit_commands |-> exit_commands, calls |-> engine_calls,
     settings |-> display_settings, request_seq |-> request_seq]

\* The deferred responder of launch, run on channel ch in session state s.
\* launched: whether target.launch succeeded; unix: the build is a unix one
\* and Terminal::create asked the front-end for the terminal. Yields the
\* launch result, the session fields and the channel after it; a failed
\* send unwinds it where it stands.
complete_launch(args, launched, unix, ch, s) ==
    LET pre == exec_commands(s.calls, commands_of(args, "pre_run_commands"))
        ds == optional_of(args, "display_settings")
        settings == IF ds = None THEN s.settings
                    ELSE update_display_settings(ds[1], s.settings)
        shown == IF ds = None THEN ch ELSE send_event(ch, "output", Some(settings))
        terminal == optional_of(args, "terminal")
        asks == unix /\ terminal \in {Some("External"), Some("Integrated")}
        asked == IF asks
                 THEN send_request(shown, s.request_seq, "runInTerminal",
                                   Some(run_in_terminal(terminal[1])))
                 ELSE shown
        stays == [result |-> Err("SourceMap", "invalid source map"),
                  process |-> s.process, process_launched |-> s.process_launched,
                  ran |-> FALSE, exit_commands |-> s.exit_commands, calls |-> pre,
                  settings |-> settings, request_seq |-> s.request_seq,
                  ch |-> shown]
        next_request == IF asks THEN s.request_seq + 1 ELSE s.request_seq
    IN  IF shown.panicked \/ args.source_map = "invalid"
        THEN stays
        ELSE IF asked.panicked
        THEN [stays EXCEPT !.request_seq = next_request, !.ch = asked]
        ELSE IF ~launched
        THEN [stays EXCEPT !.result = Err("SBError", "launch failed"),
                           !.calls = launch_calls(pre, args, launched),
                           !.request_seq = next_request, !.ch = asked]
        ELSE [result |-> Ok("launch", None),
              process |-> TRUE, process_launched |-> TRUE, ran |-> TRUE,
              exit_commands |-> commands_of(args, "exit_commands"),
              calls |-> launch_calls(pre, args, launched),
              settings |-> settings, request_seq |-> next_request, ch |-> asked]

\* A configurationDone that reads the slot without taking the responder.
take_responder_peek(slot) == slot

\* on_configuration_done.take(): the slot left behind.
take_responder(slot) == None

\* The two replies sent the other way round.
configuration_done_replies_swapped(out, seq, slot, result) ==
    LET own == send_response(out, seq, Ok("configurationDone", None))
    IN  IF slot = None THEN own ELSE send_response(own, slot[1].seq, result)

\* The deferred reply sent under configurationDone's own seq.
configuration_done_replies_own_seq(out, seq, slot, result) ==
    LET after == IF slot = None THEN out ELSE send_response(out, seq, result)
    IN  send_response(after, seq, Ok("configurationDone", None))

\* The replies of one configurationDone: what handle_configuration_done
\* sends for the taken responder, then handle_request's own reply.
configuration_done_replies(out, seq, slot, result) ==
    LET after == IF slot = None THEN out
                 ELSE send_response(out, slot[1].seq, result)
    IN  send_response(after, seq, Ok("configurationDone", None))

\* configurationDone: run the pending responder, if any, and reply.
\* launched, threads: the engine's answer to target.launch; unix: see
\* complete_launch.
handle_configuration_done(seq, launched, threads, unix) ==
    /\ Receive("configurationDone", seq, None)
    /\ LET slot == on_configuration_done
           cl == IF slot = None
                 THEN [result |-> Ok("launch", None), process |-> process,
                       process_launched |-> process_launched, ran |-> FALSE,
                       exit_commands |-> exit_commands, calls |-> engine_calls,
                       settings |-> display_settings,
                       request_seq |-> request_seq, ch |-> Channel]
                 ELSE complete_launch(slot[1].args, launched, unix, Channel,
                                      LaunchState)
       IN  /\ on_configuration_done' = take_responder(slot)
           /\ process' = cl.process
           /\ process_launched' = cl.process_launched
           /\ exit_commands' = cl.exit_commands
           /\ engine_calls' = cl.calls
           /\ global_format' = cl.settings.global_format
           /\ show_disassembly' = cl.settings.show_disassembly
           /\ deref_pointers' = cl.settings.deref_pointers
           /\ container_summary' = cl.settings.container_summary
           /\ request_seq' = cl.request_seq
           /\ engine_threads' = IF cl.ran THEN threads ELSE engine_threads
           /\ responder_runs' = IF slot = None THEN responder_runs
                                ELSE Append(responder_runs, slot[1].seq)
           /\ Sent(configuration_done_replies(cl.ch, seq, slot, cl.result))
    /\ UNCHANGED << debugger, target, source_breakpoints,
                    fn_breakpoints, breakpoints, var_refs, shutdown,
                    known_threads, loaded_modules, engine_events,
                    engine_selected, engine_bps, engine_next_bp, process_calls >>

\* threads: enumerate the process's threads.
handle_threads(seq) ==
    /\ Receive("threads", seq, None)
    /\ IF ~process
       THEN Panic                       \* self.process dereferenced uninitialized
       ELSE /\ Respond(seq, Ok("threads", Some(engine_threads)))
            /\ UNCHANGED << session_state, engine_state, responder_runs >>

\* A stackTrace that creates a handle for its first frame only.
create_frames_first_only(tree, first, n) ==
    IF n = 0 THEN tree
    ELSE HandleTreeCreate(tree, None, "[frame]",
                          [kind |-> "StackFrame", frame |-> first])

\* The handles stackTrace creates for frames first .. first+n-1, in order.
RECURSIVE create_frames(_, _, _)
create_frames(tree, first, n) ==
    IF n = 0 THEN tree
    ELSE LET t == create_frames(tree, first, n - 1)
         IN  HandleTreeCreate(t, None, "[frame]",
                              [kind |-> "StackFrame", frame |-> first + n - 1])

\* std::i64::MAX and the wrapping sum of two i64, at the model's width.
I64Max == 2 ^ (IntBits - 1) - 1
wrapping_add(a, b) ==
    LET sum == (a + b) % (2 ^ IntBits)
    IN  IF sum > I64Max THEN sum - 2 ^ IntBits ELSE sum

\* A range whose end is clamped to the largest integer instead of wrapping.
frame_range_saturating(start_frame, levels, overflow_checks) ==
    [overflow |-> FALSE, lo |-> start_frame,
     hi |-> IF start_frame + levels > I64Max THEN I64Max ELSE start_frame + levels]

\* start_frame..(start_frame + levels): the sum overflows i64 when it
\* exceeds the maximum; a build with overflow checks panics there, one
\* without wraps.
frame_range(start_frame, levels, overflow_checks) ==
    [overflow |-> overflow_checks /\ start_frame + levels > I64Max,
     lo |-> start_frame,
     hi |-> wrapping_add(start_frame, levels)]

\* in_disassembly of a frame [line_entry, local]: whether it has a line
\* entry, and whether the entry's file maps to an existing local file.
in_disassembly(frame, show) ==
    IF show # None THEN show[1]
    ELSE IF frame.line_entry THEN ~frame.local ELSE TRUE

\* A frame that always gets the local source.
frame_source_local(frame, show) == Some([kind |-> "local"])

\* The source of a stack frame: the local file, a disassembly, or none.
frame_source(frame, show) ==
    IF ~in_disassembly(frame, show)
    THEN IF frame.line_entry /\ frame.local THEN Some([kind |-> "local"]) ELSE None
    ELSE Some([kind |-> "disassembly"])

\* The frames of thread.frame_at_index(i) that are valid: all in source.
InSource(valid) == [i \in 1..valid |-> [line_entry |-> TRUE, local |-> TRUE]]

\* stackTrace of thread_id. start_frame, levels: None or Some(n); frames:
\* the thread's valid frames, frame i at frames[i + 1]; overflow_checks:
\* whether the build checks integer overflow.
handle_stack_trace(seq, thread_id, start_frame, levels, frames, overflow_checks) ==
    /\ Receive("stackTrace", seq, [thread_id |-> thread_id,
                                   start_frame |-> start_frame, levels |-> levels])
    /\ LET start == IF start_frame = None THEN 0 ELSE start_frame[1]
           range == frame_range(start, IF levels = None THEN I64Max ELSE levels[1],
                                overflow_checks)
           last_frame == IF range.hi < Len(frames) THEN range.hi ELSE Len(frames)
           n == IF last_frame > range.lo THEN last_frame - range.lo ELSE 0
       IN  IF ~process
           THEN Panic
           ELSE IF thread_id \notin engine_threads
           THEN Panic                       \* .expect("Invalid thread id")
           ELSE IF range.overflow
           THEN Panic                       \* attempt to add with overflow
           ELSE /\ var_refs' = create_frames(var_refs, range.lo, n)
                /\ engine_calls' = Append(engine_calls,
                       [call |-> "frame_at_index", thread_id |-> thread_id,
                        frames |-> frames])
                /\ Respond(seq, Ok("stackTrace",
                       Some([i \in 1..n |->
                               [id |-> var_refs.next + i - 1,
                                source |-> frame_source(frames[range.lo + i],
                                                        show_disassembly)]])))
                /\ UNCHANGED << debugger, target, process, process_launched,
                                exit_commands, request_seq,
                                on_configuration_done, source_breakpoints,
                                fn_breakpoints, breakpoints, shutdown, display_state,
                                known_threads, loaded_modules, engine_events,
                                engine_selected, engine_state, responder_runs >>

\* pause; stopped: whether process.stop() succeeded.
handle_pause(seq, stopped) ==
    /\ Receive("pause", seq, None)
    /\ IF ~process
       THEN Panic
       ELSE /\ process_calls' = Append(process_calls, [call |-> "stop", ok |-> stopped])
            /\ Respond(seq, IF stopped THEN Ok("pause", None)
                            ELSE Err("UserError", "engine error"))
            /\ UNCHANGED << session_state, engine_bps, engine_next_bp,
                            engine_threads, responder_runs >>

\* continue; resumed: whether process.resume() succeeded.
handle_continue(seq, resumed) ==
    /\ Receive("continue", seq, None)
    /\ IF ~process
       THEN PanicAfterReset(before_resume(var_refs))
       ELSE /\ var_refs' = before_resume(var_refs)
            /\ process_calls' = Append(process_calls, [call |-> "resume", ok |-> resumed])
            /\ Respond(seq, IF resumed THEN Ok("continue", None)
                            ELSE Err("UserError", "engine error"))
            /\ UNCHANGED << debugger, target, process, process_launched, exit_commands, request_seq,
                            on_configuration_done, source_breakpoints,
                            fn_breakpoints, breakpoints, shutdown, display_state,
                            event_state, engine_bps, engine_next_bp, engine_threads,
                            responder_runs >>

\* An unhandled request answered as if it had succeeded.
not_implemented_ok == Ok("unknown", None)

\* The result of a request no arm of handle_request's match handles.
not_implemented == Err("Internal", "Not implemented.")

\* Any request the match sends to its `_` arm.
handle_unknown_request(seq) ==
    /\ Receive("unknown", seq, None)
    /\ Respond(seq, not_implemented)
    /\ UNCHANGED << session_state, engine_state, responder_runs >>

\* setExceptionBreakpoints: accepted, nothing done.
handle_set_exception_breakpoints(seq) ==
    /\ Receive("setExceptionBreakpoints", seq, None)
    /\ Respond(seq, Ok("setExceptionBreakpoints", None))
    /\ UNCHANGED << session_state, engine_state, responder_runs >>

\* source: the text of the disassembly the front-end names by
\* source_reference. dasm: what the disassembly cache has under that
\* handle, None or Some(text).
handle_source(seq, source_reference, dasm) ==
    /\ Receive("source", seq, [source_reference |-> source_reference])
    /\ IF source_reference = 0
       THEN Panic                           \* handles::from_i64(0).unwrap()
       ELSE IF ~target
       THEN Panic                           \* self.disassembly is NotInitialized
       ELSE IF dasm = None
       THEN Panic                           \* get_by_handle(handle).unwrap()
       ELSE /\ Respond(seq, Ok("source",
                   Some([content |-> dasm[1],
                         mime_type |-> Some("text/x-lldb.disassembly")])))
            /\ UNCHANGED << session_state, engine_state, responder_runs >>

\* ------------------------------------------------------------ expressions
StartsWith(s, prefix) ==
    Len(s) >= Len(prefix) /\ SubSeq(s, 1, Len(prefix)) = prefix

\* Classify an expression by its prefix; the matched prefix is stripped.
\* A classification that leaves the prefix on the expression.
get_expression_type_unstripped(expr) ==
    IF StartsWith(expr, <<"/", "n", "a", "t", " ">>) THEN [expr |-> expr, ty |-> "Native"]
    ELSE IF StartsWith(expr, <<"/", "p", "y", " ">>) THEN [expr |-> expr, ty |-> "Python"]
    ELSE [expr |-> expr, ty |-> "Simple"]

get_expression_type(expr) ==
    IF StartsWith(expr, <<"/", "n", "a", "t", " ">>)
    THEN [expr |-> SubSeq(expr, 6, Len(expr)), ty |-> "Native"]
    ELSE IF StartsWith(expr, <<"/", "p", "y", " ">>)
    THEN [expr |-> SubSeq(expr, 5, Len(expr)), ty |-> "Python"]
    ELSE IF StartsWith(expr, <<"/", "s", "e", " ">>)
    THEN [expr |-> SubSeq(expr, 5, Len(expr)), ty |-> "Simple"]
    ELSE [expr |-> expr, ty |-> "Simple"]

\* ------------------------------------------------------------ breakpoints
\* Path::new(file_path).file_name(), for a path given as its components:
\* the last component, a trailing "." being skipped; None when there is
\* none or the path ends in "..".
RECURSIVE file_name(_)
file_name(path) ==
    IF path = << >> THEN None
    ELSE IF path[Len(path)] = "." THEN file_name(SubSeq(path, 1, Len(path) - 1))
    ELSE IF path[Len(path)] = ".." THEN None
    ELSE Some(path[Len(path)])

\* The engine record of a breakpoint the target has just created.
\* file_path: the path the session created it for (None for a function).
EngineBp(kind, what, line, locs, file_path) ==
    [kind |-> kind, what |-> what, line |-> line, locs |-> locs,
     file_path |-> file_path, condition |-> None, callback |-> None]

\* init_bp_actions on the engine breakpoint bp (None: an invalid
\* SBBreakpoint, on which every call is a no-op).
init_bp_actions(bp, condition) ==
    IF bp = None THEN None
    ELSE IF condition = None
    THEN Some([bp[1] EXCEPT !.callback = None])               \* clear_callback
    ELSE LET et == get_expression_type(condition[1])
         IN  IF et.ty = "Native"
             THEN Some([bp[1] EXCEPT !.condition = Some(et.expr)])  \* set_condition
             ELSE Some([bp[1] EXCEPT !.callback = Some(et)])        \* set_callback

\* target.find_breakpoint_by_id(id)
find_breakpoint_by_id(ebps, id) ==
    IF id \in DOMAIN ebps THEN Some(ebps[id]) ELSE None

\* A surviving breakpoint reported without the id it has.
found_id_invalid(ebps, id) == 0

\* bp.id() of what find_breakpoint_by_id returned: 0 for an invalid one.
found_id(ebps, id) == IF id \in DOMAIN ebps THEN id ELSE 0

\* Write an engine breakpoint back after init_bp_actions.
StoreBp(ebps, id, bp) == IF bp = None THEN ebps ELSE MapPut(ebps, id, bp[1])

\* is_valid_source_bp_location: records the location's line in the info.
is_valid_source_bp_location(loc, resolved_line) ==
    [valid |-> TRUE,
     resolved_line |-> IF loc.line # None THEN loc.line ELSE resolved_line]

\* The loop over bp.locations() of a new source breakpoint: the locations
\* with those found invalid disabled, and the resolved line it leaves.
RECURSIVE filter_locations(_, _, _)
filter_locations(locs, i, acc) ==
    IF i > Len(locs) THEN acc
    ELSE LET v == is_valid_source_bp_location(locs[i], acc.resolved_line)
         IN  filter_locations(locs, i + 1,
                 [locs |-> Append(acc.locs,
                                  [locs[i] EXCEPT !.enabled = v.valid]),
                  resolved_line |-> v.resolved_line])

\* A new breakpoint indexed but never entered into the registry.
or_insert_forgotten(registry, id, info) == registry

\* breakpoints.entry(id).or_insert(info)
or_insert(registry, id, info) ==
    IF id \in DOMAIN registry THEN registry ELSE MapPut(registry, id, info)

\* bp_info.condition = condition, on the registry's entry of id.
set_info_condition(registry, id, condition) ==
    IF id \in DOMAIN registry
    THEN [registry EXCEPT ![id].condition = condition]
    ELSE registry

\* One iteration of set_source_breakpoints' loop, for the request entry
\* req = [line, condition]; locs: the locations the engine resolves for a
\* breakpoint created at (file name, req.line).
\* st = [existing, registry, ebps, next, resp, panicked].
source_bp_step(st, req, file_path, locs) ==
    IF req.line \in DOMAIN st.existing
    THEN LET bp_id == st.existing[req.line]
             bp == find_breakpoint_by_id(st.ebps, bp_id)
         IN  IF bp_id \notin DOMAIN st.registry
             THEN [st EXCEPT !.panicked = TRUE]      \* get_mut(&bp_id).unwrap()
             ELSE [st EXCEPT
                     !.registry = set_info_condition(st.registry, bp_id, req.condition),
                     !.ebps = StoreBp(st.ebps, bp_id,
                                      init_bp_actions(bp, req.condition)),
                     !.resp = Append(st.resp,
                         [id |-> Some(found_id(st.ebps, bp_id)), verified |-> TRUE,
                          line |-> None, source |-> None])]
    ELSE IF file_name(file_path) = None
    THEN [st EXCEPT !.panicked = TRUE]               \* file_name().unwrap()
    ELSE LET bp_id == st.next
             fl == filter_locations(locs, 1, [locs |-> << >>, resolved_line |-> None])
             created == EngineBp("Source", file_name(file_path)[1], req.line,
                                 fl.locs, Some(file_path))
             info == [id |-> bp_id, kind |-> "Source", file_path |-> file_path,
                      resolved_line |-> fl.resolved_line, condition |-> None]
         IN  [st EXCEPT
                !.next = st.next + 1,
                !.existing = MapPut(st.existing, req.line, bp_id),
                !.registry = set_info_condition(or_insert(st.registry, bp_id, info),
                                                bp_id, req.condition),
                !.ebps = MapPut(st.ebps, bp_id,
                                init_bp_actions(Some(created), req.condition)[1]),
                !.resp = Append(st.resp,
                    IF fl.resolved_line # None
                    THEN [id |-> Some(bp_id), verified |-> TRUE,
                          line |-> fl.resolved_line, source |-> Some(file_path)]
                    ELSE [id |-> Some(bp_id), verified |-> FALSE,
                          line |-> None, source |-> None])]

\* set_source_breakpoints: the loop over the request entries, in order.
\* res: line -> the locations the engine resolves there.
RECURSIVE set_source_breakpoints(_, _, _, _, _)
set_source_breakpoints(st, requested_bps, i, file_path, res) ==
    IF i > Len(requested_bps) \/ st.panicked THEN st
    ELSE set_source_breakpoints(
             source_bp_step(st, requested_bps[i], file_path,
                            res[requested_bps[i].line]),
             requested_bps, i + 1, file_path, res)

\* A reconciliation that never retires an old entry.
dropped_lines_none(old, requested_bps) == {}

\* The old entries of a file whose line the request no longer names.
dropped_lines(old, requested_bps) ==
    {line \in DOMAIN old :
        ~ \E i \in 1..Len(requested_bps) : requested_bps[i].line = line}

\* target.breakpoint_delete(id) for every id of ids.
breakpoint_delete(ebps, ids) == [id \in (DOMAIN ebps) \ ids |-> ebps[id]]

\* The registry without the ids the handler removes.
registry_remove(registry, ids) == [id \in (DOMAIN registry) \ ids |-> registry[id]]

\* A panic inside a breakpoint request: what the handler did before it
\* stays done. sbp: the file index, registry, ebps, next: the registry and
\* the target's breakpoints as the panic finds them.
PanicInBreakpoints(sbp, registry, ebps, next) ==
    /\ aborted' = TRUE
    /\ source_breakpoints' = sbp
    /\ breakpoints' = registry
    /\ engine_bps' = ebps
    /\ engine_next_bp' = next
    /\ UNCHANGED << outbound, room, debugger, target, process, process_launched,
                    exit_commands, request_seq, on_configuration_done,
                    fn_breakpoints, var_refs, shutdown, display_state,
                    event_state, engine_threads, process_calls, responder_runs >>

\* setBreakpoints. path: args.source.path; requested: args.breakpoints;
\* both may be absent (None).
handle_set_breakpoints(seq, path, requested, res) ==
    /\ Receive("setBreakpoints", seq, [path |-> path, breakpoints |-> requested])
    /\ IF path = None
       THEN /\ Respond(seq, Err("Internal", "Expected Option::Some, got None"))
            /\ UNCHANGED << session_state, engine_state, responder_runs >>
       ELSE IF requested = None
       THEN Panic                                   \* as_ref().unwrap()
       ELSE
         LET file_id == path[1]
             requested_bps == requested[1]
             old == IF file_id \in DOMAIN source_breakpoints
                    THEN source_breakpoints[file_id] ELSE EmptyMap
             gone == dropped_lines(old, requested_bps)
             gone_ids == {old[line] : line \in gone}
             st0 == [existing |-> [line \in (DOMAIN old) \ gone |-> old[line]],
                     registry |-> registry_remove(breakpoints, gone_ids),
                     ebps |-> breakpoint_delete(engine_bps, gone_ids),
                     next |-> engine_next_bp, resp |-> << >>, panicked |-> FALSE]
             st == set_source_breakpoints(st0, requested_bps, 1, file_id, res)
             \* self.source_breakpoints.remove(&file_id)
             removed == [f \in (DOMAIN source_breakpoints) \ {file_id} |->
                             source_breakpoints[f]]
         IN  IF ~target /\ (gone # {} \/ requested_bps # << >>)
             THEN \* self.target dereferenced uninitialized
                  PanicInBreakpoints(removed, breakpoints, engine_bps,
                                     engine_next_bp)
             ELSE IF st.panicked
             THEN PanicInBreakpoints(removed, st.registry, st.ebps, st.next)
             ELSE /\ source_breakpoints' = MapPut(source_breakpoints, file_id, st.existing)
                  /\ breakpoints' = st.registry
                  /\ engine_bps' = st.ebps
                  /\ engine_next_bp' = st.next
                  /\ Respond(seq, Ok("setBreakpoints", Some(st.resp)))
                  /\ UNCHANGED << debugger, target, process, process_launched,
                                  exit_commands, request_seq,
                                  on_configuration_done, fn_breakpoints, var_refs,
                                  shutdown, display_state, event_state, engine_threads,
                                  process_calls,
                                  responder_runs >>

\* One iteration of handle_set_function_breakpoints' loop, for the request
\* entry bp_req = [name, condition]; resolved: the number of locations the
\* engine resolves for a new breakpoint of that name.
\* st = [new_fn, registry, ebps, next, resp, panicked].
function_bp_step(st, bp_req, old_fn, resolved) ==
    IF bp_req.name \in DOMAIN old_fn
    THEN LET bp_id == old_fn[bp_req.name]
             bp == find_breakpoint_by_id(st.ebps, bp_id)
         IN  IF bp_id \notin DOMAIN st.registry
             THEN [st EXCEPT !.panicked = TRUE]      \* get_mut(bp_id).unwrap()
             ELSE [st EXCEPT
                     !.registry = set_info_condition(st.registry, bp_id,
                                                     bp_req.condition),
                     !.ebps = StoreBp(st.ebps, bp_id,
                                      init_bp_actions(bp, bp_req.condition)),
                     !.new_fn = MapPut(st.new_fn, bp_req.name, bp_id),
                     !.resp = Append(st.resp,
                         [id |-> Some(bp_id),
                          verified |-> bp # None /\ Len(bp[1].locs) > 0,
                          line |-> None, source |-> None])]
    ELSE LET bp_id == st.next
             is_regex == StartsWith(bp_req.name, <<"/", "r", "e", " ">>)
             created == EngineBp(IF is_regex THEN "Regex" ELSE "Function",
                                 IF is_regex
                                 THEN SubSeq(bp_req.name, 5, Len(bp_req.name))
                                 ELSE bp_req.name,
                                 0,
                                 [i \in 1..resolved |->
                                     [path |-> None, line |-> None, enabled |-> TRUE]],
                                 None)
             info == [id |-> bp_id, kind |-> "Function", file_path |-> None,
                      resolved_line |-> None, condition |-> None]
         IN  [st EXCEPT
                !.next = st.next + 1,
                !.registry = set_info_condition(or_insert(st.registry, bp_id, info),
                                                bp_id, bp_req.condition),
                !.ebps = MapPut(st.ebps, bp_id,
                                init_bp_actions(Some(created), bp_req.condition)[1]),
                !.new_fn = MapPut(st.new_fn, bp_req.name, bp_id),
                !.resp = Append(st.resp,
                    [id |-> Some(bp_id), verified |-> resolved > 0,
                     line |-> None, source |-> None])]

RECURSIVE set_function_breakpoints(_, _, _, _, _)
set_function_breakpoints(st, requested_bps, i, old_fn, fres) ==
    IF i > Len(requested_bps) \/ st.panicked THEN st
    ELSE set_function_breakpoints(
             function_bp_step(st, requested_bps[i], old_fn,
                              fres[requested_bps[i].name]),
             requested_bps, i + 1, old_fn, fres)

\* setFunctionBreakpoints. fres: name -> number of resolved locations.
handle_set_function_breakpoints(seq, requested_bps, fres) ==
    /\ Receive("setFunctionBreakpoints", seq, [breakpoints |-> requested_bps])
    /\ LET st0 == [new_fn |-> EmptyMap, registry |-> breakpoints,
                   ebps |-> engine_bps, next |-> engine_next_bp,
                   resp |-> << >>, panicked |-> FALSE]
           st == set_function_breakpoints(st0, requested_bps, 1, fn_breakpoints, fres)
           \* Delete existing breakpoints that are not in new_fn_breakpoints
           gone_ids == {fn_breakpoints[name] :
                           name \in (DOMAIN fn_breakpoints) \ (DOMAIN st.new_fn)}
       IN  IF ~target /\ (gone_ids # {} \/ requested_bps # << >>)
           THEN Panic                   \* self.target dereferenced uninitialized
           ELSE IF st.panicked          \* the earlier entries stay handled
           THEN PanicInBreakpoints(source_breakpoints, st.registry, st.ebps,
                                   st.next)
           ELSE /\ fn_breakpoints' = st.new_fn
                /\ breakpoints' = st.registry
                /\ engine_bps' = breakpoint_delete(st.ebps, gone_ids)
                /\ engine_next_bp' = st.next
                /\ Respond(seq, Ok("setFunctionBreakpoints", Some(st.resp)))
                /\ UNCHANGED << debugger, target, process, process_launched,
                                exit_commands, request_seq,
                                on_configuration_done, source_breakpoints, var_refs,
                                shutdown, display_state, event_state, engine_threads, process_calls,
                                responder_runs >>


\* ------------------------------------------------- scopes and variables
\* scopes of the frame the front-end names by frame_id.
handle_scopes(seq, frame_id) ==
    /\ Receive("scopes", seq, [frame_id |-> frame_id])
    /\ IF frame_id = 0
       THEN Panic                           \* Handle::new(0).unwrap()
       ELSE LET c == HandleTreeGet(var_refs, frame_id)
                frame == c[1].frame
                t1 == HandleTreeCreate(var_refs, Some(frame_id), "[locs]",
                          [kind |-> "Locals", frame |-> frame])
                t2 == HandleTreeCreate(t1, Some(frame_id), "[stat]",
                          [kind |-> "Statics", frame |-> frame])
                t3 == HandleTreeCreate(t2, Some(frame_id), "[glob]",
                          [kind |-> "Globals", frame |-> frame])
                t4 == HandleTreeCreate(t3, Some(frame_id), "[regs]",
                          [kind |-> "Registers", frame |-> frame])
            IN  /\ IF c # None /\ c[1].kind = "StackFrame"
                   THEN /\ var_refs' = t4
                        /\ Respond(seq, Ok("scopes",
                               Some(<< var_refs.next, t1.next, t2.next, t3.next >>)))
                   ELSE /\ Respond(seq, Err("Internal", "Invalid frame reference"))
                        /\ UNCHANGED var_refs
                /\ UNCHANGED << debugger, target, process, process_launched,
                                exit_commands, request_seq,
                                on_configuration_done, source_breakpoints,
                                fn_breakpoints, breakpoints, shutdown, display_state, event_state,
                                engine_state, responder_runs >>

\* get_var_handle: a value with children (or a synthetic one) gets a handle.
\* var = [name, has_children]. Yields the tree and handles::to_i64(handle).
get_var_handle(tree, parent_handle, key, var) ==
    IF var.has_children
    THEN [tree |-> HandleTreeCreate(tree, parent_handle, key,
                       [kind |-> "Container", var |-> var.name]),
          reference |-> tree.next]
    ELSE [tree |-> tree, reference |-> 0]

\* The slot of a variable list that already holds the name, or 0.
variables_idx(variables, name) ==
    IF \E i \in 1..Len(variables) : variables[i].name = name
    THEN CHOOSE i \in 1..Len(variables) : variables[i].name = name
    ELSE 0

\* convert_scope_values: a Variable per value, a later value of the same
\* name taking the slot of the earlier one.
\* acc = [tree, variables].
RECURSIVE convert_scope_values(_, _, _, _)
convert_scope_values(acc, values, i, container_handle) ==
    IF i > Len(values) THEN acc
    ELSE LET h == get_var_handle(acc.tree, container_handle, values[i].name, values[i])
             variable == [name |-> values[i].name, variables_reference |-> h.reference]
             idx == variables_idx(acc.variables, variable.name)
         IN  convert_scope_values(
                 [tree |-> h.tree,
                  variables |-> IF idx # 0
                                THEN [acc.variables EXCEPT ![idx] = variable]
                                ELSE Append(acc.variables, variable)],
                 values, i + 1, container_handle)

\* variables of the container the front-end names by variables_reference.
\* values: the values the engine enumerates in the container, each
\* [name, has_children]; synthetic: whether a Container's value is synthetic.
handle_variables(seq, variables_reference, values, synthetic) ==
    /\ Receive("variables", seq, [variables_reference |-> variables_reference])
    /\ IF variables_reference = 0
       THEN Panic                           \* handles::from_i64(0).unwrap()
       ELSE LET container == HandleTreeGet(var_refs, variables_reference)
                conv == convert_scope_values(
                            [tree |-> var_refs, variables |-> << >>],
                            values, 1, Some(variables_reference))
                raw == [name |-> <<"[", "r", "a", "w", "]">>,
                        variables_reference |-> conv.tree.next]
                with_raw == [tree |-> HandleTreeCreate(conv.tree,
                                          Some(variables_reference), "[raw]",
                                          [kind |-> "Container", var |-> raw.name]),
                             variables |-> Append(conv.variables, raw)]
                out == IF container[1].kind = "StackFrame"
                       THEN [tree |-> var_refs, variables |-> << >>]
                       ELSE IF container[1].kind = "Container" /\ synthetic
                       THEN with_raw
                       ELSE conv
            IN  /\ IF container = None
                   THEN /\ Respond(seq, Err("Internal", "Invalid variabes reference"))
                        /\ UNCHANGED var_refs
                   ELSE /\ var_refs' = out.tree
                        /\ Respond(seq, Ok("variables", Some(out.variables)))
                /\ UNCHANGED << debugger, target, process, process_launched,
                                exit_commands, request_seq,
                                on_configuration_done, source_breakpoints,
                                fn_breakpoints, breakpoints, shutdown, display_state, event_state,
                                engine_state, responder_runs >>

\* The format a suffix letter selects, if it is one.
FormatOf(ch) ==
    CASE ch \in {"h", "x"} -> Some("Hex")
      [] ch = "o" -> Some("Octal")
      [] ch = "d" -> Some("Decimal")
      [] ch = "b" -> Some("Binary")
      [] ch = "f" -> Some("Float")
      [] ch = "p" -> Some("Pointer")
      [] ch = "u" -> Some("Unsigned")
      [] ch = "s" -> Some("CString")
      [] ch = "y" -> Some("Bytes")
      [] ch = "Y" -> Some("BytesWithASCII")
      [] OTHER -> None

\* get_expr_format: strip a trailing ",<letter>" that names a format.
get_expr_format(expr) ==
    IF Len(expr) >= 2 /\ expr[Len(expr) - 1] = "," /\ FormatOf(expr[Len(expr)]) # None
    THEN [expr |-> SubSeq(expr, 1, Len(expr) - 2), format |-> FormatOf(expr[Len(expr)])]
    ELSE [expr |-> expr, format |-> None]

\* A render in the session's global format, whatever the suffix said.
render_format_global(expr_format, global) == global

\* expr_format.unwrap_or(self.global_format)
render_format(expr_format, global) ==
    IF expr_format = None THEN global ELSE expr_format[1]

\* What an evaluation may come to: an error, an SBValue without or with
\* children, or (Simple and Python expressions only) a Python integer.
EvalOutcomes(ty) ==
    IF ty = "Native" THEN {"error", "scalar", "container"}
    ELSE {"error", "scalar", "container", "int"}

\* evaluate. frame_id: None or Some(id); context: "repl", "watch", ...;
\* val: the outcome of the evaluation; command_ok: whether an LLDB command
\* of the repl succeeded.
handle_evaluate(seq, frame_id, context, expression, val, command_ok) ==
    /\ Receive("evaluate", seq, [frame_id |-> frame_id, context |-> context,
                                 expression |-> expression])
    /\ LET frame == IF frame_id = None \/ frame_id[1] = 0 THEN None
                    ELSE HandleTreeGet(var_refs, frame_id[1])
           is_command == context = "repl" /\ ~StartsWith(expression, <<"?">>)
           stripped == IF context = "repl" /\ ~is_command
                       THEN Tail(expression) ELSE expression
           ef == get_expr_format(stripped)
           et == get_expression_type(ef.expr)
           h == get_var_handle(var_refs, None, ef.expr,
                               [name |-> ef.expr, has_children |-> val = "container"])
           evaluated == Append(engine_calls,
                               [call |-> "evaluate", expr |-> et.expr, ty |-> et.ty])
           \* execute_command_in_frame: the command goes to the interpreter
           \* in the context of the frame, else of the process's selected
           \* thread, else of the debugger's selected target.
           commanded == Append(engine_calls,
                               [call |-> "command", cmd |-> expression,
                                context |-> IF frame_id # None THEN "frame"
                                            ELSE IF process THEN "thread"
                                            ELSE "target"])
       IN  IF frame_id # None /\ (frame = None \/ frame[1].kind # "StackFrame")
           THEN Panic                       \* unwrap() / panic!("Invalid frameId")
           ELSE IF (is_command \/ et.ty # "Native") /\ ~debugger
           THEN Panic                       \* self.debugger.command_interpreter()
           ELSE IF ~is_command /\ et.ty = "Native" /\ frame_id = None /\ ~target
           THEN Panic                       \* self.target.evaluate_expression
           ELSE /\ val \in EvalOutcomes(et.ty)
                /\ IF is_command
                   THEN /\ Respond(seq, Ok("evaluate",
                               Some([result |-> IF command_ok THEN "output" ELSE "error",
                                     variables_reference |-> 0])))
                        /\ engine_calls' = commanded
                        /\ UNCHANGED var_refs
                   ELSE IF val = "error"
                   THEN /\ Respond(seq, Err("UserError", "evaluation failed"))
                        /\ engine_calls' = evaluated
                        /\ UNCHANGED var_refs
                   ELSE IF val = "int"
                   THEN /\ Respond(seq, Ok("evaluate",
                               Some([result |-> "int", variables_reference |-> 0])))
                        /\ engine_calls' = evaluated
                        /\ UNCHANGED var_refs
                   ELSE /\ var_refs' = h.tree
                        /\ engine_calls' = evaluated
                        /\ Respond(seq, Ok("evaluate",
                               Some([result |-> "value",
                                     format |-> render_format(ef.format, global_format),
                                     variables_reference |-> h.reference])))
                /\ UNCHANGED << debugger, target, process, process_launched,
                                exit_commands, request_seq,
                                on_configuration_done, source_breakpoints,
                                fn_breakpoints, breakpoints, shutdown, display_state,
                                known_threads, loaded_modules, engine_events,
                                engine_selected, engine_state, responder_runs >>

\* ------------------------------------------------------------- stepping
\* next / stepIn / stepOut of thread_id: reset the handles, look the thread
\* up, step it; what the engine makes of the step is not looked at.
step_result(cmd, found, stepped) ==
    IF found THEN Ok(cmd, None)
    ELSE Err("Internal", "Expected Option::Some, got None")

step_thread(cmd, seq, thread_id, stepped) ==
    /\ Receive(cmd, seq, [thread_id |-> thread_id])
    /\ IF ~process
       THEN PanicAfterReset(before_resume(var_refs))
       ELSE /\ var_refs' = before_resume(var_refs)
            /\ process_calls' =
                   IF thread_id \in engine_threads
                   THEN Append(process_calls, [call |-> cmd, ok |-> stepped])
                   ELSE process_calls
            /\ Respond(seq, step_result(cmd, thread_id \in engine_threads, stepped))
            /\ UNCHANGED << debugger, target, process, process_launched, exit_commands, request_seq,
                            on_configuration_done, source_breakpoints,
                            fn_breakpoints, breakpoints, shutdown, display_state,
                            event_state, engine_bps, engine_next_bp, engine_threads,
                            responder_runs >>

handle_next(seq, thread_id, stepped) == step_thread("next", seq, thread_id, stepped)
handle_step_in(seq, thread_id, stepped) == step_thread("stepIn", seq, thread_id, stepped)
handle_step_out(seq, thread_id, stepped) == step_thread("stepOut", seq, thread_id, stepped)

\* ----------------------------------------------------------- disconnect
\* A disconnect that minds only who launched the process.
terminate_if_launched(args, launched) == launched

\* Whether disconnect kills the process: args is None for a request
\* without arguments, else Some([terminate_debuggee]).
terminate(args, launched) ==
    IF args = None THEN launched
    ELSE IF args[1].terminate_debuggee = None THEN launched
    ELSE args[1].terminate_debuggee[1]

\* A disconnect that reports the failure of kill / detach.
disconnect_result_checked(ok) ==
    IF ok THEN Ok("disconnect", None) ELSE Err("SBError", "engine error")

\* The result of handle_disconnect; ok: whether kill / detach succeeded.
disconnect_result(ok) == Ok("disconnect", None)

\* disconnect: run exit_commands, kill or detach an initialized process,
\* request cancellation.
handle_disconnect(seq, args, ok) ==
    /\ Receive("disconnect", seq, args)
    /\ engine_calls' = exec_commands(engine_calls, exit_commands)
    /\ process_calls' =
           IF process
           THEN Append(process_calls,
                       [call |-> IF terminate(args, process_launched)
                                 THEN "kill" ELSE "detach",
                        ok |-> ok])
           ELSE process_calls
    /\ shutdown' = TRUE
    /\ Respond(seq, disconnect_result(ok))
    /\ UNCHANGED << debugger, target, process, process_launched, exit_commands, request_seq,
                    on_configuration_done, source_breakpoints, fn_breakpoints,
                    breakpoints, var_refs, display_state, known_threads,
                    loaded_modules, engine_events, engine_selected,
                    engine_bps, engine_next_bp, engine_threads, responder_runs >>

\* A request whose arguments field is absent is taken from the transport.
ReceiveAbsent(cmd, seq) ==
    /\ ~aborted
    /\ seq = next_seq
    /\ received' = Append(received, [cmd |-> cmd, args |-> None, absent |-> TRUE])

\* A request without arguments turned down like an unknown request.
absent_arguments_rejected(cmd, ok) == Err("Internal", "Not implemented.")

\* The result of a request whose arguments are absent, whatever its
\* command: that of handle_disconnect(None), as a disconnect body.
absent_arguments(cmd, ok) == disconnect_result(ok)

\* A request whose arguments field is absent: handle_request's else branch
\* calls handle_disconnect(None) and answers with its result.
handle_absent_arguments(seq, cmd, ok) ==
    /\ ReceiveAbsent(cmd, seq)
    /\ engine_calls' = exec_commands(engine_calls, exit_commands)
    /\ process_calls' =
           IF process
           THEN Append(process_calls,
                       [call |-> IF terminate(None, process_launched)
                                 THEN "kill" ELSE "detach",
                        ok |-> ok])
           ELSE process_calls
    /\ shutdown' = TRUE
    /\ Respond(seq, absent_arguments(cmd, ok))
    /\ UNCHANGED << debugger, target, process, process_launched, exit_commands, request_seq,
                    on_configuration_done, source_breakpoints, fn_breakpoints,
                    breakpoints, var_refs, display_state, known_threads,
                    loaded_modules, engine_events, engine_selected,
                    engine_bps, engine_next_bp, engine_threads, responder_runs >>

\* -------------------------------------------------------- engine events
\* An engine event is taken from the session's listener by a session that
\* is alive. The listener hears the target's broadcaster from create_target
\* on and the process from its launch on.
TakeEvent(event) ==
    /\ ~aborted
    /\ engine_events' = Append(engine_events, event)

\* The i-th element of order that belongs to ids, for every such element:
\* the ids in the order a HashSet happens to iterate them.
RECURSIVE in_order(_, _)
in_order(order, ids) ==
    IF order = << >> THEN << >>
    ELSE IF Head(order) \in ids
    THEN << Head(order) >> \o in_order(Tail(order), ids)
    ELSE in_order(Tail(order), ids)

RECURSIVE send_thread_events(_, _, _)
send_thread_events(out, tids, reason) ==
    IF tids = << >> THEN out
    ELSE send_thread_events(
             send_event(out, "thread",
                        Some([thread_id |-> Head(tids), reason |-> reason])),
             Tail(tids), reason)

\* A stop that announces the started threads ahead of the exited ones.
thread_events_started_first(out, known, threads, order) ==
    send_thread_events(
        send_thread_events(out, in_order(order, threads \ known), "started"),
        in_order(order, known \ threads), "exited")

\* update_threads: the thread events of a stop, for the engine's thread-id
\* set threads; order: the iteration order of the hash sets.
thread_events(out, known, threads, order) ==
    send_thread_events(
        send_thread_events(out, in_order(order, known \ threads), "exited"),
        in_order(order, threads \ known), "started")

\* A thread's stop reason says it stopped.
has_stop_reason(thread) == thread.reason \notin {"Invalid", "None"}

\* process.selected_thread(), among threads = << [id, reason, description] >>.
selected_thread(threads, sel) ==
    IF \E i \in 1..Len(threads) : threads[i].id = sel
    THEN threads[CHOOSE i \in 1..Len(threads) : threads[i].id = sel]
    ELSE [id |-> 0, reason |-> "Invalid", description |-> << >>]

\* The thread that caused the stop: the selected one if it has a stop
\* reason, else the first of the process that has one.
stopped_thread(threads, sel) ==
    IF has_stop_reason(selected_thread(threads, sel))
    THEN Some(selected_thread(threads, sel))
    ELSE IF \E i \in 1..Len(threads) : has_stop_reason(threads[i])
    THEN Some(threads[CHOOSE i \in 1..Len(threads) :
                         /\ has_stop_reason(threads[i])
                         /\ \A j \in 1..(i - 1) : ~has_stop_reason(threads[j])])
    ELSE None

\* A stop analysis that gives every stop its description.
stop_reason_str_described(thread) ==
    IF thread = None THEN [reason |-> "unknown", text |-> None]
    ELSE [reason |-> "unknown", text |-> Some(thread[1].description)]

\* Analyze stop reason: the DAP reason and the text of the stopped event.
stop_reason_str(thread) ==
    IF thread = None THEN [reason |-> "unknown", text |-> None]
    ELSE LET stop_reason == thread[1].reason
             description == Some(thread[1].description)
         IN  IF stop_reason = "Breakpoint"
             THEN [reason |-> "breakpoint", text |-> None]
             ELSE IF stop_reason \in {"Trace", "PlanComplete"}
             THEN [reason |-> "step", text |-> None]
             ELSE IF stop_reason = "Watchpoint"
             THEN [reason |-> "watchpoint", text |-> description]
             ELSE IF stop_reason = "Signal"
             THEN [reason |-> "signal", text |-> description]
             ELSE IF stop_reason = "Exception"
             THEN [reason |-> "exception", text |-> description]
             ELSE [reason |-> "unknown", text |-> description]

\* The stopped event of notify_process_stopped.
stopped_event_body(thread) ==
    [all_threads_stopped |-> Some(TRUE),
     reason |-> stop_reason_str(thread).reason,
     text |-> stop_reason_str(thread).text,
     thread_id |-> IF thread = None THEN None ELSE Some(thread[1].id)]

\* A stop that leaves the deferred modules queued.
modules_after_stop_kept(loaded) == loaded

\* loaded_modules.clear()
modules_after_stop(loaded) == << >>

\* The events of an exit sent the other way round.
exit_events_terminated_first(out, exit_code) ==
    send_event(send_event(out, "terminated", None),
               "exited", Some([exit_code |-> exit_code]))

\* The events of ProcessState::Exited.
exit_events(out, exit_code) ==
    send_event(send_event(out, "exited", Some([exit_code |-> exit_code])),
               "terminated", None)

\* notify_process_stopped. threads: the engine's threads at the stop, in
\* the engine's order, each [id, reason, description]; sel: the id of the
\* selected thread; order: the iteration order of the thread-id hash sets.
notify_process_stopped(threads, sel, order) ==
    LET ids == {threads[i].id : i \in 1..Len(threads)}
        thread == stopped_thread(threads, sel)
        out1 == thread_events(Channel, known_threads, ids, order)
        out2 == send_event(out1, "stopped", Some(stopped_event_body(thread)))
    IN  /\ engine_threads' = ids
        /\ Sent(out2)
        /\ IF out1.panicked           \* unwound inside update_threads
           THEN UNCHANGED << known_threads, engine_selected, engine_calls,
                             loaded_modules >>
           ELSE /\ known_threads' = ids
                /\ engine_selected' = IF thread = None THEN sel ELSE thread[1].id
                /\ IF out2.panicked   \* unwound at the stopped event
                   THEN UNCHANGED << engine_calls, loaded_modules >>
                   ELSE /\ engine_calls' = Append(engine_calls,
                               [call |-> "modules_loaded",
                                modules |-> loaded_modules, sent |-> Len(out2.q)])
                        /\ loaded_modules' = modules_after_stop(loaded_modules)

\* What every request handler and the other events leave alone.
not_event_state == << debugger, target, process, process_launched,
                      exit_commands, request_seq,
                      on_configuration_done, source_breakpoints, fn_breakpoints,
                      breakpoints, var_refs, shutdown, display_state,
                      engine_bps, engine_next_bp, process_calls, responder_runs,
                      received >>

\* A process event. state_changed: the event carries
\* BroadcastBitStateChanged; state: the process state it reports.
handle_process_event(state_changed, state, restarted, threads, sel, order, exit_code) ==
    /\ process
    /\ TakeEvent([kind |-> "process", state_changed |-> state_changed,
                  state |-> state, restarted |-> restarted,
                  threads |-> threads, sel |-> sel])
    /\ IF state_changed /\ state = "Running"
       THEN /\ Sent(send_event(Channel, "continued",
                   Some([all_threads_continued |-> Some(TRUE), thread_id |-> 0])))
            /\ UNCHANGED << known_threads, loaded_modules, engine_calls,
                            engine_selected, engine_threads >>
       ELSE IF state_changed /\ ((state = "Stopped" /\ ~restarted) \/ state = "Crashed")
       THEN notify_process_stopped(threads, sel, order)
       ELSE IF state_changed /\ state = "Exited"
       THEN /\ Sent(exit_events(Channel, exit_code))
            /\ UNCHANGED << known_threads, loaded_modules, engine_calls,
                            engine_selected, engine_threads >>
       ELSE IF state_changed /\ state = "Detached"
       THEN /\ Sent(send_event(Channel, "terminated", None))
            /\ UNCHANGED << known_threads, loaded_modules, engine_calls,
                            engine_selected, engine_threads >>
       ELSE UNCHANGED << outbound, room, aborted, known_threads, loaded_modules,
                         engine_calls, engine_selected, engine_threads >>
    /\ UNCHANGED not_event_state

\* A target event; modules_loaded: it carries BroadcastBitModulesLoaded.
handle_target_event(modules_loaded, modules) ==
    /\ target
    /\ TakeEvent([kind |-> "target", modules_loaded |-> modules_loaded,
                  modules |-> modules])
    /\ loaded_modules' = IF modules_loaded THEN loaded_modules \o modules
                         ELSE loaded_modules
    /\ UNCHANGED << outbound, room, aborted, known_threads, engine_calls,
                    engine_selected, engine_threads >>
    /\ UNCHANGED not_event_state

\* bp.clear_callback() on the breakpoint of a breakpoint event.
clear_callback(ebps, id) ==
    IF id \in DOMAIN ebps THEN [ebps EXCEPT ![id].callback = None] ELSE ebps

\* A breakpoint event of the target about the breakpoint id; removed: its
\* event type intersects Removed.
handle_breakpoint_event(id, removed) ==
    /\ target
    /\ TakeEvent([kind |-> "breakpoint", id |-> id, removed |-> removed])
    /\ engine_bps' = IF removed THEN clear_callback(engine_bps, id) ELSE engine_bps
    /\ UNCHANGED << outbound, room, aborted, known_threads, loaded_modules,
                    engine_calls, engine_selected, engine_threads >>
    /\ UNCHANGED << debugger, target, process, process_launched, exit_commands,
                    request_seq, on_configuration_done, source_breakpoints,
                    fn_breakpoints, breakpoints, var_refs, shutdown,
                    display_state, engine_next_bp, process_calls,
                    responder_runs, received >>

\* evaluate_python_bp_condition: whether a hit stops the inferior, from what
\* python::evaluate gave for the condition. result: [kind |-> "Err"],
\* [kind |-> "SBValue", unsigned |-> None or Some(n)] (try_value_as_unsigned),
\* [kind |-> "Bool", val], [kind |-> "Int", val], [kind |-> "String"] or
\* [kind |-> "Object"].
evaluate_python_bp_condition(result) ==
    IF result.kind = "Err" THEN TRUE                 \* Stop on evaluation errors
    ELSE IF result.kind = "SBValue"
    THEN IF result.unsigned = None THEN TRUE ELSE result.unsigned[1] # 0
    ELSE IF result.kind = "Bool" THEN result.val
    ELSE TRUE

\* A hit of the engine breakpoint id that carries a callback: the engine
\* calls the callback, which evaluates the condition and says whether to
\* stop.
breakpoint_hit(id, result) ==
    /\ ~aborted
    /\ process
    /\ id \in DOMAIN engine_bps
    /\ engine_bps[id].callback # None
    /\ engine_calls' = Append(engine_calls,
           [call |-> "bp_callback", id |-> id, expr |-> engine_bps[id].callback[1].expr,
            result |-> result, stop |-> evaluate_python_bp_condition(result)])
    /\ UNCHANGED << outbound, room, aborted, known_threads, loaded_modules,
                    engine_events, engine_selected, engine_threads >>
    /\ UNCHANGED not_event_state

\* -------------------------------------------------------- displaySettings
\* refresh_client_display: a fake continued / stopped pair.
refresh_client_display(out, thread_id) ==
    send_event(
        send_event(out, "continued",
                   Some([all_threads_continued |-> Some(TRUE), thread_id |-> thread_id])),
        "stopped",
        Some([all_threads_stopped |-> Some(TRUE), reason |-> "", text |-> None,
              thread_id |-> Some(thread_id)]))

\* displaySettings: update the settings, show them on the console, refresh.
handle_display_settings(seq, args) ==
    /\ Receive("displaySettings", seq, args)
    /\ LET new == update_display_settings(args, display_settings)
           shown == send_event(Channel, "output", Some(new))
       IN  /\ global_format' = new.global_format
           /\ show_disassembly' = new.show_disassembly
           /\ deref_pointers' = new.deref_pointers
           /\ container_summary' = new.container_summary
           /\ IF ~process
              THEN /\ outbound' = shown.q   \* selected_thread() of no process
                   /\ room' = shown.room
                   /\ aborted' = TRUE
              ELSE Sent(send_response(
                            refresh_client_display(shown, engine_selected),
                            seq, Ok("displaySettings", None)))
    /\ UNCHANGED << debugger, target, process, process_launched, exit_commands, request_seq,
                    on_configuration_done, source_breakpoints, fn_breakpoints,
                    breakpoints, var_refs, shutdown, event_state, engine_state,
                    responder_runs >>

\* ------------------------------------------------------------------ inputs
SeqsUpTo(S, n) == UNION {[1..k -> S] : k \in 0..n}

\* Breakpoint lists of setBreakpoints whose conditions are drawn from conds.
SourceReqs(conds) == SeqsUpTo([line : Lines, condition : conds], MaxReqs)
\* Breakpoint lists of setFunctionBreakpoints.
FunctionReqs(conds) == SeqsUpTo([name : FnNames, condition : conds], MaxReqs)

\* What the engine resolves for a new breakpoint at (file name, line):
\* nothing, or one location in the requested file at the requested line.
ResShapes == {"none", "exact"}
Resolution(path, shape) ==
    [line \in Lines |->
        IF shape = "none" THEN << >>
        ELSE << [path |-> Some(path), line |-> Some(line), enabled |-> TRUE] >>]

\* The engine's thread sets of a launched inferior.
ThreadSets == (SUBSET ThreadIds) \ {{}}

\* ------------------------------------------------------------- next state
\* The request/response protocol: every handler, the breakpoint requests
\* with their smallest inputs.
NextProto ==
    \E seq \in 1..MaxSeq :
        \/ handle_initialize(seq)
        \/ \E args \in LaunchArgs, created \in BOOLEAN : handle_launch(seq, args, created)
        \/ handle_attach(seq)
        \/ \E launched \in BOOLEAN, threads \in ThreadSets :
               handle_configuration_done(seq, launched, threads, TRUE)
        \/ handle_threads(seq)
        \/ \E thread_id \in ThreadIds, valid \in 0..NumFrames :
               handle_stack_trace(seq, thread_id, None, None, InSource(valid), TRUE)
        \/ \E stopped \in BOOLEAN : handle_pause(seq, stopped)
        \/ \E resumed \in BOOLEAN : handle_continue(seq, resumed)
        \/ handle_unknown_request(seq)
        \/ channel_fills(0) /\ seq = 1 /\ debugger /\ ~process
        \/ \E path \in {None} \cup {Some(f) : f \in Files},
              requested \in {None} \cup
                  {Some(r) : r \in SeqsUpTo([line : Lines, condition : {None}], 1)} :
               handle_set_breakpoints(seq, path, requested,
                   Resolution(IF path = None THEN << >> ELSE path[1], "exact"))
        \/ \E requested \in SeqsUpTo([name : FnNames, condition : {None}], 1) :
               handle_set_function_breakpoints(seq, requested, [n \in FnNames |-> 1])

SpecProto == Init /\ [][NextProto]_vars

\* A session that is initialized, launches once and then only sets
\* breakpoints: the sequences of setBreakpoints / setFunctionBreakpoints.
NextBp ==
    \E seq \in 1..MaxSeq :
        \/ handle_initialize(seq) /\ ~debugger
        \/ handle_launch(seq, [source_map |-> "absent"], TRUE) /\ debugger /\ ~target
        \/ \E f \in Files, requested \in SourceReqs({None}) :
               /\ target
               /\ handle_set_breakpoints(seq, Some(f), Some(requested), Resolution(f, "exact"))
        \/ \E requested \in FunctionReqs({None}) :
               /\ target
               /\ handle_set_function_breakpoints(seq, requested, [n \in FnNames |-> 1])

SpecBp == Init /\ [][NextBp]_vars

\* Arguments of disconnect: none, or terminate_debuggee absent or given.
DisconnectArgs ==
    {None} \cup {Some([terminate_debuggee |-> t]) : t \in {None, Some(TRUE), Some(FALSE)}}

\* Values the engine enumerates in a container, and expressions evaluated.
ValueLists == {<< [name |-> <<"a">>, has_children |-> TRUE] >>}
EvaluateInputs ==
    {[frame_id |-> Some(1), context |-> "watch", expression |-> <<"x", ",", "h">>,
      val |-> "container"],
     [frame_id |-> None, context |-> "repl", expression |-> <<"x">>,
      val |-> "scalar"]}

\* A session that is initialized, launches, reaches the stopped inferior
\* with thread 1 and then inspects and resumes it.
NextVars ==
    \E seq \in 1..MaxVarSeq :
        \/ handle_initialize(seq) /\ ~debugger
        \/ handle_launch(seq, [source_map |-> "absent"], TRUE) /\ debugger /\ ~target
        \/ handle_configuration_done(seq, TRUE, {1}, TRUE) /\ target /\ ~process
        \/ /\ process
           /\ \/ handle_stack_trace(seq, 1, None, None, InSource(NumFrames), TRUE)
              \/ handle_scopes(seq, 1)
              \/ \E ref \in {1, NumFrames + 1}, values \in ValueLists :
                     handle_variables(seq, ref, values, TRUE)
              \/ \E e \in EvaluateInputs :
                     handle_evaluate(seq, e.frame_id, e.context, e.expression,
                                     e.val, TRUE)
              \/ \E resumed \in BOOLEAN : handle_continue(seq, resumed)
              \/ \E thread_id \in ThreadIds : handle_next(seq, thread_id, TRUE)
              \/ handle_step_in(seq, 1, TRUE)
              \/ handle_step_out(seq, 1, TRUE)
              \/ handle_pause(seq, TRUE)

SpecVars == Init /\ [][NextVars]_vars

\* Sessions that end: any prefix of initialize, launch, configurationDone,
\* and disconnect requests at any point.
NextDisc ==
    \E seq \in 1..MaxSeq :
        \/ handle_initialize(seq) /\ ~debugger
        \/ handle_launch(seq, [source_map |-> "absent"], TRUE) /\ debugger
        \/ \E launched \in BOOLEAN :
               handle_configuration_done(seq, launched, {1}, TRUE) /\ target
        \/ \E args \in DisconnectArgs, ok \in BOOLEAN :
               /\ process \/ ok
               /\ handle_disconnect(seq, args, ok)

SpecDisc == Init /\ [][NextDisc]_vars

\* The state of the process as the engine last reported it: the state of
\* the last state-change event, "Launching" before the first one. A stop
\* the engine restarted from reports a running process.
RECURSIVE process_state_after(_, _)
process_state_after(events, i) ==
    IF i = 0 THEN "Launching"
    ELSE LET e == events[i]
         IN  IF e.kind = "process" /\ e.state_changed
             THEN IF e.state = "Stopped" /\ e.restarted THEN "Running" ELSE e.state
             ELSE process_state_after(events, i - 1)
engine_process_state == process_state_after(engine_events, Len(engine_events))

\* The state changes an inferior goes through.
StateChanges ==
    [Launching |-> {"Running"},
     Running |-> {"Stopped", "Crashed", "Exited", "Detached", "Stepping"},
     Stepping |-> {"Running", "Stopped", "Crashed", "Exited"},
     Stopped |-> {"Running", "Exited", "Detached"},
     Crashed |-> {"Running", "Exited", "Detached"},
     Exited |-> {},
     Detached |-> {}]

\* The stops of the event sessions: one thread at a breakpoint; a selected
\* thread without a stop reason beside one stopped by a signal, the thread
\* ids iterated in either order; one thread without a stop reason.
StopInputs ==
    {[threads |-> << [id |-> 1, reason |-> "Breakpoint", description |-> <<"b">>] >>,
      sel |-> 1, order |-> <<1, 2>>],
     [threads |-> << [id |-> 1, reason |-> "None", description |-> << >>],
                     [id |-> 2, reason |-> "Signal", description |-> <<"s">>] >>,
      sel |-> 1, order |-> <<1, 2>>],
     [threads |-> << [id |-> 1, reason |-> "None", description |-> << >>],
                     [id |-> 2, reason |-> "Signal", description |-> <<"s">>] >>,
      sel |-> 1, order |-> <<2, 1>>],
     [threads |-> << [id |-> 2, reason |-> "None", description |-> << >>] >>,
      sel |-> 2, order |-> <<1, 2>>]}
\* The stop of a crash, and of a stop the engine restarted from.
CrashInput ==
    [threads |-> << [id |-> 1, reason |-> "Exception", description |-> <<"e">>] >>,
     sel |-> 1, order |-> <<1, 2>>]

\* The modules of the next target event, named by the event's arrival.
NextModules ==
    LET n == Len(engine_events) + 1
    IN  << [event |-> n, index |-> 1], [event |-> n, index |-> 2] >>

\* displaySettings without arguments: a refresh of the client's display.
NoDisplayArgs ==
    [display_format |-> None, show_disassembly |-> None,
     dereference_pointers |-> None, container_summary |-> None]

\* The engine's events of one launched inferior, in every order the
\* inferior's state changes allow, interleaved with requests; the outbound
\* channel may run short while the inferior runs.
NextEvents ==
    \/ \E seq \in 1..MaxEventSeq :
           \/ handle_initialize(seq) /\ ~debugger
           \/ handle_launch(seq, [source_map |-> "absent"], TRUE) /\ debugger /\ ~target
           \/ handle_configuration_done(seq, TRUE, {1}, TRUE) /\ target /\ ~process
           \/ process /\ handle_display_settings(seq, NoDisplayArgs)
           \/ process /\ handle_continue(seq, TRUE)
    \/ /\ Len(engine_events) < MaxEvents
       /\ \/ \E state \in StateChanges[engine_process_state] :
                  \/ /\ state = "Stopped"
                     /\ \/ \E stop \in StopInputs :
                               handle_process_event(TRUE, state, FALSE, stop.threads,
                                                    stop.sel, stop.order, 0)
                        \/ handle_process_event(TRUE, state, TRUE, CrashInput.threads,
                                                CrashInput.sel, CrashInput.order, 0)
                  \/ /\ state = "Crashed"
                     /\ handle_process_event(TRUE, state, FALSE, CrashInput.threads,
                                             CrashInput.sel, CrashInput.order, 0)
                  \/ /\ state = "Exited"
                     /\ \E exit_code \in {0, 1} :
                            handle_process_event(TRUE, state, FALSE, << >>, 0, <<1, 2>>,
                                                 exit_code)
                  \/ /\ state \notin {"Stopped", "Crashed", "Exited"}
                     /\ handle_process_event(TRUE, state, FALSE, << >>, 0, <<1, 2>>, 0)
          \/ handle_process_event(FALSE, engine_process_state, FALSE, << >>, 0, <<1, 2>>, 0)
          \/ \E modules_loaded \in BOOLEAN :
                  handle_target_event(modules_loaded, NextModules)
    \/ /\ engine_process_state = "Running"
       /\ \E n \in 0..1 : channel_fills(n)

SpecEvents == Init /\ [][NextEvents]_vars

\* The stop reasons of the engine, and every stop of one or two threads.
StopReasons == {"Invalid", "None", "Trace", "Breakpoint", "Watchpoint", "Signal",
                "Exception", "Exec", "PlanComplete", "ThreadExiting",
                "Instrumentation"}
StoppedThreads ==
    {<< [id |-> 1, reason |-> r, description |-> <<"d", "1">>] >> : r \in StopReasons}
    \cup {<< [id |-> 1, reason |-> r1, description |-> <<"d", "1">>],
              [id |-> 2, reason |-> r2, description |-> <<"d", "2">>] >> :
              r1 \in StopReasons, r2 \in StopReasons}

\* One launched inferior that runs and stops once, for every stop reason
\* of its threads and either of them selected.
NextStop ==
    \/ \E seq \in 1..MaxEventSeq :
           \/ handle_initialize(seq) /\ ~debugger
           \/ handle_launch(seq, [source_map |-> "absent"], TRUE) /\ debugger /\ ~target
           \/ handle_configuration_done(seq, TRUE, {1}, TRUE) /\ target /\ ~process
    \/ /\ engine_process_state = "Launching"
       /\ handle_process_event(TRUE, "Running", FALSE, << >>, 0, <<1, 2>>, 0)
    \/ /\ engine_process_state = "Running"
       /\ \E state \in {"Stopped", "Crashed"}, threads \in StoppedThreads,
             sel \in ThreadIds, order \in ThreadOrders :
              /\ sel <= Len(threads)
              /\ handle_process_event(TRUE, state, FALSE, threads, sel, order, 0)

SpecStop == Init /\ [][NextStop]_vars

\* Arguments of displaySettings: no setting or one setting present, with
\* every value it can take, and two requests that name all four.
AllDisplayArgs ==
    [display_format : {None} \cup {Some(f) : f \in {"Auto", "Decimal", "Hex", "Binary"}},
     show_disassembly : {None} \cup {Some(d) : d \in {"Auto", "Always", "Never"}},
     dereference_pointers : {None} \cup {Some(b) : b \in BOOLEAN},
     container_summary : {None} \cup {Some(b) : b \in BOOLEAN}]
Present(args) ==
    {f \in {"display_format", "show_disassembly", "dereference_pointers",
            "container_summary"} : args[f] # None}
DisplayArgs ==
    {args \in AllDisplayArgs : Cardinality(Present(args)) <= 1}
    \cup {[display_format |-> Some("Hex"), show_disassembly |-> Some("Never"),
           dereference_pointers |-> Some(FALSE), container_summary |-> Some(FALSE)],
          [display_format |-> Some("Auto"), show_disassembly |-> Some("Auto"),
           dereference_pointers |-> Some(TRUE), container_summary |-> Some(TRUE)]}

\* displaySettings requests counted in the requests received.
RECURSIVE Displays(_, _)
Displays(rs, n) ==
    IF n = 0 THEN 0
    ELSE Displays(rs, n - 1) + (IF rs[n].cmd = "displaySettings" THEN 1 ELSE 0)

\* A session that sets a breakpoint, launches, stops at it and lists the
\* frames, with displaySettings requests while the launch is pending and
\* after the stop.
NextDisplay ==
    \/ \E seq \in 1..(5 + MaxDisplays) :
           \/ handle_initialize(seq) /\ ~debugger
           \/ handle_launch(seq, [source_map |-> "absent"], TRUE) /\ debugger /\ ~target
           \/ \E f \in Files :
                  /\ target /\ seq = 3
                  /\ handle_set_breakpoints(seq, Some(f),
                         Some(<< [line |-> 10, condition |-> None] >>),
                         Resolution(f, "exact"))
           \/ handle_configuration_done(seq, TRUE, {1}, TRUE) /\ seq = 4
           \/ /\ engine_process_state = "Stopped" /\ seq = 5
              /\ handle_stack_trace(seq, 1, None, None, InSource(NumFrames), TRUE)
           \/ \E args \in DisplayArgs :
                  /\ seq \in {4} \cup (6..(5 + MaxDisplays))
                  /\ Displays(received, Len(received)) < MaxDisplays
                  /\ handle_display_settings(seq, args)
    \/ /\ engine_process_state = "Launching"
       /\ handle_process_event(TRUE, "Running", FALSE, << >>, 0, <<1, 2>>, 0)
    \/ /\ engine_process_state = "Running"
       /\ handle_process_event(TRUE, "Stopped", FALSE, CrashInput.threads, 1, <<1, 2>>, 0)

SpecDisplay == Init /\ [][NextDisplay]_vars

\* Expression strings: a prefix (none, the three classifiers, near misses
\* and doubled classifiers), up to MaxExprLen characters, and a suffix (none,
\* every format letter after a comma, an unknown letter after a comma, a
\* letter or a comma alone).
ExprPrefixes ==
    {<< >>, <<"/", "n", "a", "t", " ">>, <<"/", "p", "y", " ">>, <<"/", "s", "e", " ">>,
     <<"/", "n", "a", "t">>, <<"/", "P", "Y", " ">>,
     <<"/", "n", "a", "t", " ", "/", "p", "y", " ">>,
     <<"/", "s", "e", " ", "/", "s", "e", " ">>}
ExprBodies == SeqsUpTo({"x", ","}, MaxExprLen)
ExprSuffixes ==
    {<< >>, <<"h">>, <<",">>}
    \cup {<<",", ch>> : ch \in {"x", "h", "o", "d", "b", "f", "p", "u", "s", "y", "Y",
                                "z", "H", " "}}
ExprStrings == {p \o b \o x : p \in ExprPrefixes, b \in ExprBodies, x \in ExprSuffixes}

NotYet(cmd) == \A i \in 1..Len(received) : received[i].cmd # cmd

\* A launched session in which one expression is evaluated, before or
\* after a displaySettings request for decimal display, and one source
\* breakpoint with a condition is set.
NextExpr ==
    \E seq \in 1..(MaxEventSeq + 1) :
        \/ handle_initialize(seq) /\ ~debugger
        \/ handle_launch(seq, [source_map |-> "absent"], TRUE) /\ debugger /\ ~target
        \/ handle_configuration_done(seq, TRUE, {1}, TRUE) /\ target /\ ~process
        \/ /\ process /\ NotYet("displaySettings") /\ NotYet("setBreakpoints")
           /\ handle_display_settings(seq,
                  [NoDisplayArgs EXCEPT !.display_format = Some("Decimal")])
        \/ /\ process /\ NotYet("evaluate") /\ NotYet("setBreakpoints")
           /\ seq = next_seq
           /\ \E expression \in ExprStrings, val \in {"scalar", "error"} :
                  handle_evaluate(seq, None, "watch", expression, val, TRUE)
        \/ /\ process /\ NotYet("setBreakpoints")
           /\ NotYet("displaySettings") /\ NotYet("evaluate")
           /\ seq = next_seq
           /\ \E condition \in ExprStrings :
                  handle_set_breakpoints(seq, Some(<<"a", "f.c">>),
                      Some(<< [line |-> 10, condition |-> Some(condition)] >>),
                      Resolution(<<"a", "f.c">>, "exact"))

SpecExpr == Init /\ [][NextExpr]_vars

\* The file of the same name in the other directory.
OtherDir(path) == CHOOSE f \in Files : f # path /\ file_name(f) = file_name(path)

\* What the engine may resolve for a breakpoint created by (file name,
\* line), as a list of locations in the engine's order: nothing; the
\* requested place; the same line of the same-named file in the other
\* directory, alone, after or before the requested place; two places of
\* the requested file, the requested line and the next one, in either
\* order; the requested place and then the next line of the other file;
\* an address without a line entry.
LocShapes == {"none", "exact", "foreign", "exact+foreign", "foreign+exact",
              "line+next", "next+line", "exact+foreign next", "no entry"}
Loc(path, line) == [path |-> Some(path), line |-> Some(line), enabled |-> TRUE]
Locations(path, line, shape) ==
    CASE shape = "none" -> << >>
      [] shape = "exact" -> << Loc(path, line) >>
      [] shape = "foreign" -> << Loc(OtherDir(path), line) >>
      [] shape = "exact+foreign" -> << Loc(path, line), Loc(OtherDir(path), line) >>
      [] shape = "foreign+exact" -> << Loc(OtherDir(path), line), Loc(path, line) >>
      [] shape = "line+next" -> << Loc(path, line), Loc(path, line + 1) >>
      [] shape = "next+line" -> << Loc(path, line + 1), Loc(path, line) >>
      [] shape = "exact+foreign next" ->
             << Loc(path, line), Loc(OtherDir(path), line + 1) >>
      [] shape = "no entry" -> << [path |-> None, line |-> None, enabled |-> TRUE] >>

\* A session with a target in which the source breakpoints of one file
\* are set once, for every shape of what the engine resolves.
NextRes ==
    \E seq \in 1..MaxSeq :
        \/ handle_initialize(seq) /\ ~debugger
        \/ handle_launch(seq, [source_map |-> "absent"], TRUE) /\ debugger /\ ~target
        \/ /\ target /\ NotYet("setBreakpoints") /\ seq = next_seq
           /\ \E f \in Files, requested \in SourceReqs({None}), shape \in LocShapes :
                  handle_set_breakpoints(seq, Some(f), Some(requested),
                      [line \in Lines |-> Locations(f, line, shape)])

SpecRes == Init /\ [][NextRes]_vars

\* A session with a target in which the one source breakpoint a/f.c:10
\* and the one function breakpoint m are requested again and again, with
\* every condition.
NextCond ==
    \E seq \in 1..(2 + MaxCondReqs) :
        \/ handle_initialize(seq) /\ ~debugger
        \/ handle_launch(seq, [source_map |-> "absent"], TRUE) /\ debugger /\ ~target
        \/ /\ target /\ seq = next_seq
           /\ \E condition \in Conditions :
                  handle_set_breakpoints(seq, Some(<<"a", "f.c">>),
                      Some(<< [line |-> 10, condition |-> condition] >>),
                      Resolution(<<"a", "f.c">>, "exact"))
        \/ /\ target /\ seq = next_seq
           /\ \E condition \in Conditions :
                  handle_set_function_breakpoints(seq,
                      << [name |-> <<"m">>, condition |-> condition] >>,
                      [n \in FnNames |-> 1])

SpecCond == Init /\ [][NextCond]_vars

\* What the interpreter may give for a condition: an error; an engine
\* value that is not a number, zero, one or 255; a boolean;
\* a plain integer; a string; another object.
ConditionResults ==
    {[kind |-> "Err"], [kind |-> "String"], [kind |-> "Object"]}
    \cup {[kind |-> "SBValue", unsigned |-> u] :
              u \in {None, Some(0), Some(1), Some(255)}}
    \cup {[kind |-> "Bool", val |-> b] : b \in BOOLEAN}
    \cup {[kind |-> "Int", val |-> n] : n \in {-1, 0, 1}}

RECURSIVE Hits(_, _)
Hits(calls, n) ==
    IF n = 0 THEN 0
    ELSE Hits(calls, n - 1) + (IF calls[n].call = "bp_callback" THEN 1 ELSE 0)

\* A session with one source breakpoint whose condition is Simple or
\* Python, launched, in which the breakpoint is hit.
NextHit ==
    \/ \E seq \in 1..MaxSeq :
           \/ handle_initialize(seq) /\ ~debugger
           \/ handle_launch(seq, [source_map |-> "absent"], TRUE) /\ debugger /\ ~target
           \/ /\ target /\ ~process /\ NotYet("setBreakpoints") /\ seq = next_seq
              /\ \E condition \in {Some(CondSimple), Some(CondPython)} :
                     handle_set_breakpoints(seq, Some(<<"a", "f.c">>),
                         Some(<< [line |-> 10, condition |-> condition] >>),
                         Resolution(<<"a", "f.c">>, "exact"))
           \/ handle_configuration_done(seq, TRUE, {1}, TRUE) /\ target /\ ~process
    \/ /\ Hits(engine_calls, Len(engine_calls)) < MaxHits
       /\ \E id \in DOMAIN engine_bps, result \in ConditionResults :
              breakpoint_hit(id, result)

SpecHit == Init /\ [][NextHit]_vars

\* A launched session with thread 1 that is paused, continued and stepped,
\* the engine accepting or refusing each operation.
NextResume ==
    \E seq \in 1..(MaxEventSeq + 1) :
        \/ handle_initialize(seq) /\ ~debugger
        \/ handle_launch(seq, [source_map |-> "absent"], TRUE) /\ debugger /\ ~target
        \/ handle_configuration_done(seq, TRUE, {1}, TRUE) /\ target /\ ~process
        \/ /\ process /\ seq = next_seq
           /\ \E ok \in BOOLEAN :
                  \/ handle_pause(seq, ok)
                  \/ handle_continue(seq, ok)
                  \/ \E thread_id \in ThreadIds : handle_next(seq, thread_id, ok)
                  \/ handle_step_in(seq, 1, ok)
                  \/ handle_step_out(seq, 1, ok)

SpecResume == Init /\ [][NextResume]_vars

\* The valid frames of a thread: up to NumFrames + 1 frames, each with a
\* line entry of a local file, with a line entry of a file that is not
\* there, or without a line entry.
FrameKinds == {[line_entry |-> TRUE, local |-> TRUE],
               [line_entry |-> TRUE, local |-> FALSE],
               [line_entry |-> FALSE, local |-> FALSE]}
FrameLists == SeqsUpTo(FrameKinds, NumFrames + 1)
StartFrames == {None} \cup {Some(n) : n \in 0..(NumFrames + 1)}
Levels == {None} \cup {Some(n) : n \in 0..NumFrames}

\* A launched session with thread 1 whose frames are listed once, for every
\* window, after show_disassembly was left at auto or set.
NextFrames ==
    \E seq \in 1..(MaxEventSeq + 1) :
        \/ handle_initialize(seq) /\ ~debugger
        \/ handle_launch(seq, [source_map |-> "absent"], TRUE) /\ debugger /\ ~target
        \/ handle_configuration_done(seq, TRUE, {1}, TRUE) /\ target /\ ~process
        \/ /\ process /\ NotYet("displaySettings") /\ NotYet("stackTrace")
           /\ \E show \in {"Always", "Never"} :
                  handle_display_settings(seq,
                      [NoDisplayArgs EXCEPT !.show_disassembly = Some(show)])
        \/ /\ process /\ NotYet("stackTrace") /\ seq = next_seq
           /\ \E start_frame \in StartFrames, levels \in Levels, frames \in FrameLists,
                 overflow_checks \in BOOLEAN :
                  handle_stack_trace(seq, 1, start_frame, levels, frames,
                                     overflow_checks)

SpecFrames == Init /\ [][NextFrames]_vars

\* Launch arguments with each command list absent or present; with an
\* absent or invalid source map the lists are all present or all absent.
AllCommandArgs ==
    [source_map : {"absent", "valid", "invalid"},
     init_commands : {None, Some(<< <<"init">> >>)},
     pre_run_commands : {None, Some(<< <<"pre">> >>)},
     post_run_commands : {None, Some(<< <<"post1">>, <<"post2">> >>)},
     exit_commands : {None, Some(<< <<"exit">> >>)}]
LaunchCommandArgs ==
    {a \in AllCommandArgs :
        \/ a.source_map = "valid"
        \/ /\ a.init_commands = None <=> a.pre_run_commands = None
           /\ a.pre_run_commands = None <=> a.post_run_commands = None
           /\ a.post_run_commands = None <=> a.exit_commands = None}
\* Launch arguments with display settings and a terminal: all command
\* lists, with hex display and an external or integrated terminal or none,
\* or with the console for a terminal.
FullCommandArgs ==
    [source_map |-> "valid",
     init_commands |-> Some(<< <<"init">> >>),
     pre_run_commands |-> Some(<< <<"pre">> >>),
     post_run_commands |-> Some(<< <<"post1">>, <<"post2">> >>),
     exit_commands |-> Some(<< <<"exit">> >>)]
HexDisplay == Some([display_format |-> Some("Hex"), show_disassembly |-> None,
                    dereference_pointers |-> None, container_summary |-> None])
WithTerminal(args, ds, terminal) ==
    [f \in (DOMAIN args) \cup {"display_settings", "terminal"} |->
        IF f = "display_settings" THEN ds
        ELSE IF f = "terminal" THEN terminal
        ELSE args[f]]
TerminalArgs ==
    {WithTerminal(FullCommandArgs, HexDisplay, Some("External")),
     WithTerminal(FullCommandArgs, HexDisplay, Some("Integrated")),
     WithTerminal(FullCommandArgs, HexDisplay, None),
     WithTerminal(FullCommandArgs, None, Some("Console"))}
Launches == Cardinality({i \in 1..Len(received) : received[i].cmd = "launch"})

\* A session that launches, perhaps more than once before or after a
\* configurationDone, with command lists, display settings and a terminal,
\* and disconnects.
NextLaunch ==
    \E seq \in 1..MaxLaunchSeq :
        \/ handle_initialize(seq) /\ ~debugger
        \/ /\ debugger /\ seq = next_seq /\ Launches < MaxLaunches
           /\ \E args \in LaunchCommandArgs \cup TerminalArgs :
                  handle_launch(seq, args, TRUE)
        \/ /\ target
           /\ \E launched \in BOOLEAN, unix \in BOOLEAN :
                  /\ unix \/ (on_configuration_done # None
                               /\ optional_of(on_configuration_done[1].args,
                                              "terminal")
                                      \in {Some("External"), Some("Integrated")})
                  /\ handle_configuration_done(seq, launched, {1}, unix)
        \/ target /\ handle_disconnect(seq, None, TRUE)

SpecLaunch == Init /\ [][NextLaunch]_vars

\* Commands of the requests that arrive without arguments.
AbsentCommands == {"initialize", "launch", "configurationDone", "threads",
                   "continue", "disconnect", "unknown"}

\* A session in any stage of launching, with or without exit_commands,
\* that receives requests without arguments.
NextAbsent ==
    \E seq \in 1..MaxSeq :
        \/ handle_initialize(seq) /\ ~debugger
        \/ /\ debugger /\ ~target /\ seq = next_seq
           /\ \E exit \in {None, Some(<< <<"exit1">>, <<"exit2">> >>)} :
                  handle_launch(seq, [source_map |-> "absent", exit_commands |-> exit],
                                TRUE)
        \/ /\ target /\ ~process
           /\ \E launched \in BOOLEAN : handle_configuration_done(seq, launched, {1}, TRUE)
        \/ /\ seq = next_seq
           /\ \E cmd \in AbsentCommands, ok \in BOOLEAN :
                  /\ process \/ ok
                  /\ handle_absent_arguments(seq, cmd, ok)

SpecAbsent == Init /\ [][NextAbsent]_vars

\* A session whose outbound channel runs short at any point of a launch
\* with display settings and a terminal, of a refresh of the display, or
\* of the events of a stop with two new threads and of an exit.
NextChannel ==
    \/ \E seq \in 1..MaxSeq :
           \/ handle_initialize(seq) /\ ~debugger
           \/ /\ debugger /\ ~target
              /\ \E args \in TerminalArgs, created \in BOOLEAN :
                     handle_launch(seq, args, created)
           \/ /\ target /\ ~process
              /\ \E unix \in BOOLEAN : handle_configuration_done(seq, TRUE, {1}, unix)
           \/ process /\ handle_display_settings(seq, NoDisplayArgs)
    \/ /\ engine_process_state = "Launching"
       /\ handle_process_event(TRUE, "Running", FALSE, << >>, 0, <<1, 2>>, 0)
    \/ /\ engine_process_state = "Running"
       /\ \/ \E stop \in StopInputs :
                 handle_process_event(TRUE, "Stopped", FALSE, stop.threads,
                                      stop.sel, stop.order, 0)
          \/ handle_process_event(TRUE, "Exited", FALSE, << >>, 0, <<1, 2>>, 1)
    \/ \E n \in 0..2 : channel_fills(n)

SpecChannel == Init /\ [][NextChannel]_vars

\* Paths of setBreakpoints without a file name, and one that ends in ".".
OddPaths == {<<"a", "..">>, << >>, <<"a", "f.c", ".">>}

\* A session, with or without a target, that receives the requests
\* handled without a process: setExceptionBreakpoints, source,
\* setBreakpoints of odd paths, setFunctionBreakpoints, the resuming
\* requests; and the target's events about its breakpoints, a Removed one
\* for a breakpoint it has deleted.
NextRequests ==
    \/ \E seq \in 1..MaxSeq :
           \/ handle_initialize(seq) /\ ~debugger
           \/ handle_launch(seq, [source_map |-> "absent"], TRUE) /\ debugger /\ ~target
           \/ handle_set_exception_breakpoints(seq)
           \/ \E source_reference \in {0, 1}, dasm \in {None, Some("text")} :
                  handle_source(seq, source_reference, dasm)
           \/ \E f \in OddPaths \cup {<<"a", "f.c">>},
                 requested \in SeqsUpTo([line : Lines, condition : {Some(CondSimple)}], 1) :
                  handle_set_breakpoints(seq, Some(f), Some(requested),
                                         Resolution(f, "exact"))
           \/ \E requested \in SeqsUpTo([name : {<<"m">>}, condition : {None}], 1) :
                  handle_set_function_breakpoints(seq, requested, [n \in FnNames |-> 1])
           \/ handle_continue(seq, TRUE)
           \/ handle_next(seq, 1, TRUE)
           \/ handle_step_in(seq, 1, TRUE)
           \/ handle_step_out(seq, 1, TRUE)
    \/ /\ Len(engine_events) < MaxBpEvents
       /\ \E id \in 1..(engine_next_bp - 1) :
              handle_breakpoint_event(id, id \notin DOMAIN engine_bps)

SpecRequests == Init /\ [][NextRequests]_vars

Next ==
    \/ NextProto \/ NextBp \/ NextVars \/ NextDisc
    \/ NextEvents \/ NextStop \/ NextDisplay \/ NextExpr \/ NextRes
    \/ NextCond \/ NextHit \/ NextResume \/ NextFrames \/ NextLaunch
    \/ NextAbsent \/ NextChannel \/ NextRequests

Spec == Init /\ [][Next]_vars

\* ------------------------------------------------------------- properties
\* A step that handled a request, and what it put on the outbound queue.
Handled == received' # received
NewMessages == SubSeq(outbound', Len(outbound) + 1, Len(outbound'))
IsResponse(m) == m.type = "response"
CmdOf(rs, seq) == IF seq \in 1..Len(rs) THEN rs[seq].cmd ELSE "none"
NoDuplicates(q) == \A i, j \in 1..Len(q) : q[i] = q[j] => i = j
\* The step panicked with the outbound channel full: a try_send failed.
\* What a step sends is stated for the steps whose sends were all taken.
ChannelFull == aborted' /\ room' = 0
Responses(q) == SelectSeq(q, IsResponse)

\* C1: a launch whose target is created sends no Response while it is
\* handled: it puts exactly the `initialized` event on the queue and stores
\* the responder under its own seq (a launch that does answer answers with
\* a failure and stores nothing); a Response carrying the seq of a launch
\* whose responder was stored appears only in a configurationDone step.
C1_LaunchIsDeferred ==
    [][Handled =>
        /\ (last'.cmd = "launch" /\ ~aborted') =>
              \/ /\ NewMessages = << EventMsg("initialized", None) >>
                 /\ on_configuration_done' =
                        Some([seq |-> last'.seq, args |-> last'.args])
              \/ /\ Len(NewMessages) = 1
                 /\ IsResponse(NewMessages[1])
                 /\ ~NewMessages[1].success
                 /\ NewMessages[1].request_seq = last'.seq
                 /\ on_configuration_done' = on_configuration_done
        /\ \A i \in 1..Len(NewMessages) :
              (/\ IsResponse(NewMessages[i])
               /\ CmdOf(received', NewMessages[i].request_seq) = "launch"
               /\ NewMessages[i].request_seq # last'.seq)
              => /\ last'.cmd = "configurationDone"
                 /\ on_configuration_done # None
                 /\ NewMessages[i].request_seq = on_configuration_done[1].seq
    ]_vars

\* C1 witness: the launch Response has been sent, after the `initialized`
\* event, by the configurationDone just handled.
C1_Witness ==
    /\ last.cmd = "configurationDone"
    /\ \E i, j \in 1..Len(outbound) :
          /\ i < j
          /\ outbound[i] = EventMsg("initialized", None)
          /\ IsResponse(outbound[j])
          /\ outbound[j].body = Some("launch")
          /\ CmdOf(received, outbound[j].request_seq) = "launch"

\* C2 as stated: a configurationDone (seq c) handled with a launch (seq l)
\* pending queues the Response to c first and the Response to l second.
C2_ConfigurationDoneFirst ==
    [][(Handled /\ last'.cmd = "configurationDone" /\ on_configuration_done # None) =>
        /\ Len(NewMessages) = 2
        /\ IsResponse(NewMessages[1]) /\ NewMessages[1].request_seq = last'.seq
        /\ IsResponse(NewMessages[2])
        /\ NewMessages[2].request_seq = on_configuration_done[1].seq
    ]_vars

\* C2 amended: a configurationDone (seq c) handled with a launch (seq l)
\* pending queues the Response to l first and the Response to c second,
\* when the channel takes what the step sends.
C2_LaunchReplyFirst ==
    [][(/\ Handled /\ last'.cmd = "configurationDone"
        /\ on_configuration_done # None /\ ~ChannelFull) =>
        /\ Len(NewMessages) = 2
        /\ IsResponse(NewMessages[1])
        /\ NewMessages[1].request_seq = on_configuration_done[1].seq
        /\ IsResponse(NewMessages[2]) /\ NewMessages[2].request_seq = last'.seq
        /\ NewMessages[2].body = Some("configurationDone")
    ]_vars

\* C2 witness: the queue ends with the launch Response followed by the
\* Response of the configurationDone just handled.
C2_Witness ==
    /\ last.cmd = "configurationDone"
    /\ Len(outbound) >= 2
    /\ LET l == outbound[Len(outbound) - 1]
           c == outbound[Len(outbound)]
       IN  /\ IsResponse(l) /\ CmdOf(received, l.request_seq) = "launch"
           /\ IsResponse(c) /\ c.request_seq = last.seq
           /\ l.request_seq < c.request_seq

\* C3: every outbound Response names the seq of a request already taken
\* and answers that request (a success body is the body of that request's
\* command, so a deferred launch reply names the launch), and no two
\* Responses name the same seq.
C3_ResponseSeq ==
    \A i \in 1..Len(outbound) :
        IsResponse(outbound[i]) =>
            /\ outbound[i].request_seq \in 1..Len(received)
            /\ outbound[i].success =>
                   outbound[i].body =
                       Some(CmdOf(received, outbound[i].request_seq))
            /\ \A j \in 1..Len(outbound) :
                   (IsResponse(outbound[j])
                    /\ outbound[j].request_seq = outbound[i].request_seq) => i = j

\* C3 witness: a deferred launch has been answered, under the launch's seq,
\* by a later configurationDone, among the Responses of other requests.
C3_Witness ==
    /\ last.cmd = "configurationDone"
    /\ Cardinality({i \in 1..Len(outbound) : IsResponse(outbound[i])}) >= 3
    /\ \E i \in 1..Len(outbound) :
          /\ IsResponse(outbound[i])
          /\ outbound[i].body = Some("launch")
          /\ outbound[i].request_seq < last.seq

\* C4: the slot holds at most one responder; the step that sends a
\* deferred Response leaves the slot empty; no responder runs twice; a
\* configurationDone handled with an empty slot sends its own success
\* Response and nothing else (when the channel takes it), and runs no
\* responder.
C4_OneShotResponder ==
    /\ [](Len(on_configuration_done) <= 1 /\ NoDuplicates(responder_runs))
    /\ [][(Handled /\ last'.cmd = "configurationDone") =>
            /\ on_configuration_done' = None
            /\ on_configuration_done = None =>
                  /\ ChannelFull \/ NewMessages =
                        << ResponseMsg(last'.seq, Ok("configurationDone", None)) >>
                  /\ responder_runs' = responder_runs
            /\ on_configuration_done # None =>
                  responder_runs' =
                      Append(responder_runs, on_configuration_done[1].seq)
       ]_vars

\* C4 witness: a second configurationDone was handled after the one that
\* ran the responder, and added only its own Response.
C4_Witness ==
    /\ last.cmd = "configurationDone"
    /\ Len(responder_runs) = 1
    /\ on_configuration_done = None
    /\ \E i \in 1..(Len(received) - 1) :
          /\ received[i].cmd = "configurationDone"
          /\ responder_runs[1] < i
    /\ outbound[Len(outbound)] =
           ResponseMsg(last.seq, Ok("configurationDone", None))
    /\ outbound[Len(outbound) - 1].request_seq # responder_runs[1]

\* C5 as stated: an attach request stores a deferred responder under its
\* own seq and sends no Response while it is handled.
C5_AttachIsDeferred ==
    [][(Handled /\ last'.cmd = "attach") =>
        /\ ~aborted'
        /\ on_configuration_done' # None
        /\ on_configuration_done'[1].seq = last'.seq
        /\ \A i \in 1..Len(NewMessages) : ~IsResponse(NewMessages[i])
    ]_vars

\* C6 as stated: a request that fails while the handle it needs is
\* initialized (stackTrace with a process, setBreakpoints with a target) is
\* answered by one Response under its seq, and the session lives on.
C6_FailureIsAResponse ==
    [][(/\ Handled
        /\ \/ last'.cmd = "stackTrace" /\ process
           \/ last'.cmd = "setBreakpoints" /\ target) =>
        /\ ~aborted'
        /\ Len(NewMessages) = 1
        /\ IsResponse(NewMessages[1])
        /\ NewMessages[1].request_seq = last'.seq
    ]_vars

\* C7: an unhandled request is answered by exactly one Response, with
\* success=false, no body and the message "Not implemented.", and changes
\* nothing of the session, when the channel has room for the Response.
C7_NotImplemented ==
    [][(Handled /\ last'.cmd = "unknown" /\ room > 0) =>
        /\ NewMessages =
              << [type |-> "response", request_seq |-> last'.seq,
                  success |-> FALSE, message |-> Some("Not implemented."),
                  body |-> None, data |-> None] >>
        /\ ~aborted'
        /\ UNCHANGED << session_state, engine_state, responder_runs >>
    ]_vars

\* C7 witness: an unhandled request was answered while a responder was
\* pending, which it left in place.
C7_Witness ==
    /\ last.cmd = "unknown"
    /\ on_configuration_done # None
    /\ IsResponse(outbound[Len(outbound)])
    /\ outbound[Len(outbound)].request_seq = last.seq
    /\ outbound[Len(outbound)].message = Some("Not implemented.")

\* C8 as stated: threads, stackTrace, pause or continue handled while the
\* process is Uninitialized, and setBreakpoints with a non-empty list
\* handled while the target is Uninitialized, are answered by a
\* success=false Response, and the session lives on.
C8_UninitializedIsAnError ==
    [][(/\ Handled
        /\ \/ last'.cmd \in {"threads", "stackTrace", "pause", "continue"} /\ ~process
           \/ /\ last'.cmd = "setBreakpoints" /\ ~target
              /\ last'.args.path # None /\ last'.args.breakpoints # None
              /\ last'.args.breakpoints[1] # << >>) =>
        /\ ~aborted'
        /\ Len(NewMessages) = 1
        /\ IsResponse(NewMessages[1])
        /\ ~NewMessages[1].success
        /\ NewMessages[1].request_seq = last'.seq
    ]_vars

\* Every breakpoint id an index holds.
IndexedIds ==
    UNION {Range(source_breakpoints[f]) : f \in DOMAIN source_breakpoints}
        \cup Range(fn_breakpoints)

\* C9: every breakpoint id stored in source_breakpoints (for any file) or
\* in fn_breakpoints is a key of the breakpoints registry.
C9_IndexedInRegistry == IndexedIds \subseteq DOMAIN breakpoints

\* C9 witness: an index holds breakpoints, all of them registered, after
\* a reconciliation that retired a breakpoint and removed it from the
\* registry.
C9_Witness ==
    /\ IndexedIds # {}
    /\ IndexedIds = DOMAIN breakpoints
    /\ \E id \in 1..(engine_next_bp - 1) : id \notin DOMAIN breakpoints
    /\ \E f \in DOMAIN source_breakpoints : source_breakpoints[f] # EmptyMap

\* The live engine breakpoints the session created for a line of a file.
EngineSourceBps(ebps, f, line) ==
    {id \in DOMAIN ebps :
        /\ ebps[id].kind = "Source"
        /\ ebps[id].file_path = Some(f)
        /\ ebps[id].line = line}

RequestedLines(requested_bps) ==
    {requested_bps[i].line : i \in 1..Len(requested_bps)}

\* C10: after a setBreakpoints for file f with lines L the key set of
\* source_breakpoints[f] is the set of distinct lines of L, the engine
\* holds exactly one live breakpoint of the session for each of those lines
\* of f and none for any other line of f, and the entries of the other
\* files are as before.
C10_ReconciledToRequest ==
    [][(/\ Handled /\ last'.cmd = "setBreakpoints" /\ ~aborted'
        /\ last'.args.path # None /\ last'.args.breakpoints # None) =>
        LET f == last'.args.path[1]
            L == RequestedLines(last'.args.breakpoints[1])
        IN  /\ f \in DOMAIN source_breakpoints'
            /\ DOMAIN source_breakpoints'[f] = L
            /\ \A line \in Lines :
                  Cardinality(EngineSourceBps(engine_bps', f, line)) =
                      IF line \in L THEN 1 ELSE 0
            /\ \A line \in L :
                  source_breakpoints'[f][line] \in EngineSourceBps(engine_bps', f, line)
            /\ \A g \in Files \ {f} :
                  /\ g \in DOMAIN source_breakpoints' <=> g \in DOMAIN source_breakpoints
                  /\ g \in DOMAIN source_breakpoints =>
                        source_breakpoints'[g] = source_breakpoints[g]
    ]_vars

\* C10 witness: a request naming one line twice was handled for a file
\* while another file had entries; the file is left with that one line.
C10_Witness ==
    /\ last.cmd = "setBreakpoints"
    /\ ~aborted
    /\ Len(last.args.breakpoints[1]) = 2
    /\ Cardinality(RequestedLines(last.args.breakpoints[1])) = 1
    /\ DOMAIN source_breakpoints[last.args.path[1]] =
           RequestedLines(last.args.breakpoints[1])
    /\ \E g \in DOMAIN source_breakpoints :
          g # last.args.path[1] /\ source_breakpoints[g] # EmptyMap

\* C11 as stated: every key of the breakpoints registry is referenced by an
\* entry of source_breakpoints or fn_breakpoints, and is a live breakpoint
\* of the engine.
C11_RegistryIsIndexed ==
    /\ DOMAIN breakpoints \subseteq IndexedIds
    /\ DOMAIN breakpoints \subseteq DOMAIN engine_bps

\* The response a setBreakpoints / setFunctionBreakpoints step queued.
BreakpointsResp == NewMessages[1].data[1]

\* A step that handled a setBreakpoints naming a file and a list, and
\* returned.
SetBreakpointsStep ==
    /\ Handled /\ last'.cmd = "setBreakpoints" /\ ~aborted'
    /\ last'.args.path # None /\ last'.args.breakpoints # None

\* The entries a file had before the step.
OldEntries(f) ==
    IF f \in DOMAIN source_breakpoints THEN source_breakpoints[f] ELSE EmptyMap

\* C12: the response of a setBreakpoints has one entry per request entry,
\* in request order; the i-th entry carries the id the file's index now
\* holds for the i-th requested line, a live engine breakpoint; a line the
\* file already had keeps its id, and a line it did not have gets an id
\* that was neither registered nor live in the engine before.
C12_OneEntryPerRequest ==
    [][SetBreakpointsStep =>
        LET f == last'.args.path[1]
            reqs == last'.args.breakpoints[1]
        IN  /\ Len(NewMessages) = 1
            /\ IsResponse(NewMessages[1]) /\ NewMessages[1].success
            /\ Len(BreakpointsResp) = Len(reqs)
            /\ \A i \in 1..Len(reqs) :
                  LET line == reqs[i].line
                      id == BreakpointsResp[i].id
                  IN  /\ id = Some(source_breakpoints'[f][line])
                      /\ id[1] \in DOMAIN engine_bps'
                      /\ id[1] \in DOMAIN breakpoints'
                      /\ line \in DOMAIN OldEntries(f) => id[1] = OldEntries(f)[line]
                      /\ line \notin DOMAIN OldEntries(f) =>
                            /\ id[1] \notin DOMAIN engine_bps
                            /\ id[1] \notin DOMAIN breakpoints
    ]_vars

\* C12 witness: the last setBreakpoints was answered with two entries, the
\* first carrying an id an earlier response already reported, the second
\* the id of the breakpoint the engine created last.
C12_Witness ==
    /\ last.cmd = "setBreakpoints" /\ ~aborted
    /\ LET m == outbound[Len(outbound)]
       IN  /\ IsResponse(m) /\ m.success /\ Len(m.data[1]) = 2
           /\ m.data[1][2].id = Some(engine_next_bp - 1)
           /\ m.data[1][1].id # m.data[1][2].id
           /\ \E k \in 1..(Len(outbound) - 1) :
                 /\ outbound[k].body = Some("setBreakpoints")
                 /\ \E j \in 1..Len(outbound[k].data[1]) :
                       outbound[k].data[1][j].id = m.data[1][1].id

\* C13 as stated: in every entry of a setBreakpoints response, for a new
\* breakpoint and for one that survived from an earlier request, verified
\* is true exactly when the registry's info of the breakpoint records a
\* resolved_line, and then the entry carries that line and the source.
C13_VerifiedIffResolved ==
    [][SetBreakpointsStep =>
        LET f == last'.args.path[1]
        IN  \A i \in 1..Len(BreakpointsResp) :
               LET entry == BreakpointsResp[i]
                   info == breakpoints'[entry.id[1]]
               IN  /\ entry.verified <=> info.resolved_line # None
                   /\ entry.verified =>
                         /\ entry.line = info.resolved_line
                         /\ entry.source = Some(f)
    ]_vars

\* The live engine breakpoints the session created for a function name.
EngineFunctionBps(ebps, name) ==
    LET is_regex == StartsWith(name, <<"/", "r", "e", " ">>)
    IN  {id \in DOMAIN ebps :
            /\ ebps[id].kind = IF is_regex THEN "Regex" ELSE "Function"
            /\ ebps[id].what = IF is_regex THEN SubSeq(name, 5, Len(name)) ELSE name}

RequestedNames(requested_bps) ==
    {requested_bps[i].name : i \in 1..Len(requested_bps)}

\* C14 as stated: after a setFunctionBreakpoints with names N the key set
\* of fn_breakpoints is the set of distinct names of N, a name already
\* present keeps its id, the breakpoint of a name no longer requested is
\* gone from the engine, and the engine holds exactly one live function
\* breakpoint of the session for each name of N and none for another name.
C14_FunctionsReconciled ==
    [][(Handled /\ last'.cmd = "setFunctionBreakpoints" /\ ~aborted') =>
        LET N == RequestedNames(last'.args.breakpoints)
        IN  /\ DOMAIN fn_breakpoints' = N
            /\ \A name \in N \cap DOMAIN fn_breakpoints :
                  fn_breakpoints'[name] = fn_breakpoints[name]
            /\ \A name \in (DOMAIN fn_breakpoints) \ N :
                  fn_breakpoints[name] \notin DOMAIN engine_bps'
            /\ \A name \in FnNames :
                  Cardinality(EngineFunctionBps(engine_bps', name)) =
                      IF name \in N THEN 1 ELSE 0
    ]_vars

\* ------------------------------------------------------------- handles
ResumeCmds == {"continue", "next", "stepIn", "stepOut"}

\* C15 as stated: a continue, next, stepIn, stepOut or pause that is
\* handled leaves the handle tree as reset() leaves it.
C15_ResetBeforeDriving ==
    [][(Handled /\ last'.cmd \in ResumeCmds \cup {"pause"} /\ ~aborted') =>
        var_refs' = HandleTreeReset(var_refs)
    ]_vars

\* The Responses sent so far to request seq (at most one, by C3).
ResponsesTo(seq) ==
    {i \in 1..Len(outbound) :
        IsResponse(outbound[i]) /\ outbound[i].request_seq = seq}

\* The handles a Response hands to the front-end, in order; 0 is "none".
HandleSeq(m) ==
    IF ~m.success THEN << >>
    ELSE IF m.body = Some("stackTrace")
    THEN [i \in 1..Len(m.data[1]) |-> m.data[1][i].id]
    ELSE IF m.body = Some("scopes") THEN m.data[1]
    ELSE IF m.body = Some("variables")
    THEN [i \in 1..Len(m.data[1]) |-> m.data[1][i].variables_reference]
    ELSE IF m.body = Some("evaluate") THEN << m.data[1].variables_reference >>
    ELSE << >>

\* The seq of the last request that reset the handle tree (0 if none).
LastReset ==
    LET resets == {k \in 1..Len(received) :
                      received[k].cmd \in ResumeCmds /\ ResponsesTo(k) # {}}
    IN  IF resets = {} THEN 0
        ELSE CHOOSE k \in resets : \A j \in resets : j <= k

\* The handles issued, as <<position in outbound, position in the Response>>,
\* before the last reset and since.
IssuedAt(i, j) == HandleSeq(outbound[i])[j]
AllIssued ==
    UNION {{<< i, j >> : j \in {k \in 1..Len(HandleSeq(outbound[i])) :
                                  IssuedAt(i, k) # 0}} :
           i \in {k \in 1..Len(outbound) : IsResponse(outbound[k])}}
Issued(before) ==
    {p \in AllIssued : (outbound[p[1]].request_seq < LastReset) = before}

\* C16: right after a continue, next, stepIn or stepOut was handled,
\* whether it succeeded or failed, var_refs holds no handle at all, so none
\* that was issued before the request.
C16_NoHandleSurvivesResume ==
    [][(Handled /\ last'.cmd \in ResumeCmds) =>
        /\ var_refs'.entries = EmptyMap
        /\ \A p \in AllIssued :
              HandleTreeGet(var_refs', IssuedAt(p[1], p[2])) = None
    ]_vars

\* C16 witness: a next naming an unknown thread was answered with an error
\* after a stackTrace had issued frame handles, and no handle is left.
C16_Witness ==
    /\ last.cmd = "next" /\ ~aborted
    /\ ~outbound[Len(outbound)].success
    /\ \E i \in 1..Len(outbound) :
          outbound[i].body = Some("stackTrace") /\ Len(outbound[i].data[1]) > 0
    /\ var_refs.entries = EmptyMap

\* C17 as stated: a handle issued before the last reset of the handle tree
\* resolves to nothing, whatever was created since.
C17_StaleIdsMiss ==
    \A p \in Issued(TRUE) : HandleTreeGet(var_refs, IssuedAt(p[1], p[2])) = None

\* The container a handle of Response m (to request r) was created with:
\* its kind, and the frame for the handles of stackTrace.
CreatedKind(m, j) ==
    IF m.body = Some("stackTrace") THEN "StackFrame"
    ELSE IF m.body = Some("scopes")
    THEN << "Locals", "Statics", "Globals", "Registers" >>[j]
    ELSE "Container"

\* C18: the handles issued since the last reset are non-zero (stackTrace
\* and scopes issue no zero at all), pairwise distinct, and each resolves
\* to the container it was created with: the i-th id of a stackTrace to
\* frame i-1, the ids of a scopes to the Locals, Statics, Globals and
\* Registers of one frame, a variablesReference to a Container.
C18_HandlesOfOneStop ==
    /\ \A i \in 1..Len(outbound) :
          (IsResponse(outbound[i]) /\ outbound[i].success
           /\ outbound[i].body \in {Some("stackTrace"), Some("scopes")}) =>
              \A j \in 1..Len(HandleSeq(outbound[i])) : HandleSeq(outbound[i])[j] # 0
    /\ \A p, q \in Issued(FALSE) :
          IssuedAt(p[1], p[2]) = IssuedAt(q[1], q[2]) => p = q
    /\ \A p \in Issued(FALSE) :
          LET c == HandleTreeGet(var_refs, IssuedAt(p[1], p[2]))
          IN  /\ c # None
              /\ c[1].kind = CreatedKind(outbound[p[1]], p[2])
              /\ c[1].kind = "StackFrame" => c[1].frame = p[2] - 1

\* C18 witness: two stackTrace Responses and a scopes Response were issued
\* since the last reset, for the same frames.
C18_Witness ==
    /\ ~aborted
    /\ \E i, j, k \in 1..Len(outbound) :
          /\ i < j
          /\ outbound[i].body = Some("stackTrace") /\ outbound[i].request_seq > LastReset
          /\ outbound[j].body = Some("stackTrace") /\ outbound[j].request_seq > LastReset
          /\ Len(outbound[i].data[1]) > 0 /\ Len(outbound[j].data[1]) > 0
          /\ outbound[k].body = Some("scopes") /\ outbound[k].request_seq > LastReset

\* ----------------------------------------------------------- disconnect
\* C19: a disconnect handled with an initialized process makes exactly one
\* call on it: kill when the session launched the process and the request
\* does not carry terminate_debuggee = false, detach in every other case;
\* with no process initialized it makes no call.
C19_KillOrDetach ==
    [][(Handled /\ last'.cmd = "disconnect") =>
        LET forbidden == /\ last'.args # None
                         /\ last'.args[1].terminate_debuggee = Some(FALSE)
        IN  IF process
            THEN /\ Len(process_calls') = Len(process_calls) + 1
                 /\ SubSeq(process_calls', 1, Len(process_calls)) = process_calls
                 /\ process_calls'[Len(process_calls')].call =
                        IF process_launched /\ ~forbidden THEN "kill" ELSE "detach"
            ELSE process_calls' = process_calls
    ]_vars

\* C19 witness: the launched process was detached by a disconnect carrying
\* terminate_debuggee = false.
C19_Witness ==
    /\ last.cmd = "disconnect"
    /\ last.args = Some([terminate_debuggee |-> Some(FALSE)])
    /\ process /\ process_launched
    /\ Len(process_calls) = 1 /\ process_calls[1].call = "detach"

\* C20: every disconnect, whatever the state of the session and whether
\* kill / detach succeeds, requests cancellation and is answered by exactly
\* one Response, under its seq, with success=true; the session lives on.
C20_DisconnectSucceeds ==
    [][(Handled /\ last'.cmd = "disconnect") =>
        /\ shutdown'
        /\ ~aborted'
        /\ NewMessages = << ResponseMsg(last'.seq, Ok("disconnect", None)) >>
        /\ NewMessages[1].success
    ]_vars

\* C20 witness: a disconnect whose kill failed was answered with success
\* and cancellation is requested.
C20_Witness ==
    /\ last.cmd = "disconnect"
    /\ process_calls # << >>
    /\ process_calls[Len(process_calls)] = [call |-> "kill", ok |-> FALSE]
    /\ shutdown
    /\ outbound[Len(outbound)] = ResponseMsg(last.seq, Ok("disconnect", None))

\* ----------------------------------------------------------- engine events
IsEvent(m, name) == m.type = "event" /\ m.body = Some(name)
EventTaken == engine_events' # engine_events
LastEvent == engine_events[Len(engine_events)]
IsStateChange(e, state) == e.kind = "process" /\ e.state_changed /\ e.state = state
NamesOf(q) == [i \in 1..Len(q) |-> IF q[i].type = "event" THEN q[i].body[1] ELSE "response"]

\* C21: in the outbound sequence every `exited` event is immediately
\* followed by a `terminated` event and no `terminated` event precedes it;
\* a state change to Detached emits `terminated` and nothing else; this
\* for the steps whose sends the channel took.
C21_ExitedThenTerminated ==
    [][~ChannelFull =>
       /\ \A i \in 1..Len(outbound') :
              IsEvent(outbound'[i], "exited") =>
                  /\ i < Len(outbound')
                  /\ IsEvent(outbound'[i + 1], "terminated")
                  /\ \A j \in 1..(i - 1) : ~IsEvent(outbound'[j], "terminated")
       /\ (EventTaken /\ IsStateChange(LastEvent', "Detached")) =>
              NewMessages = << EventMsg("terminated", None) >>
    ]_vars

\* C21 witness: the inferior exited with status 1 while it was running and
\* the front-end was told `exited` and then `terminated`.
C21_Witness ==
    /\ engine_events # << >>
    /\ IsStateChange(LastEvent, "Exited")
    /\ Len(outbound) >= 2
    /\ outbound[Len(outbound) - 1] = EventMsg("exited", Some([exit_code |-> 1]))
    /\ IsEvent(outbound[Len(outbound)], "terminated")

\* C22: every `stopped` event of the outbound sequence is preceded by a
\* `continued` event of its own resume cycle: between it and the `stopped`
\* event before it (or the start of the session) a `continued` was emitted.
C22_StoppedFollowsContinued ==
    \A i \in 1..Len(outbound) :
        IsEvent(outbound[i], "stopped") =>
            \E j \in 1..(i - 1) :
                /\ IsEvent(outbound[j], "continued")
                /\ \A k \in (j + 1)..(i - 1) : ~IsEvent(outbound[k], "stopped")

\* The thread a stop is reported for: the selected thread if it has a stop
\* reason, otherwise the first thread of the process that has one.
WithReason(e) ==
    {i \in 1..Len(e.threads) : e.threads[i].reason \notin {"Invalid", "None"}}
StoppingThread(e) ==
    IF \E i \in WithReason(e) : e.threads[i].id = e.sel
    THEN e.threads[CHOOSE i \in WithReason(e) : e.threads[i].id = e.sel]
    ELSE e.threads[CHOOSE i \in WithReason(e) : \A j \in WithReason(e) : i <= j]
IsStop(e) ==
    \/ IsStateChange(e, "Crashed")
    \/ IsStateChange(e, "Stopped") /\ ~e.restarted
ReasonOf(stop_reason) ==
    CASE stop_reason = "Breakpoint" -> "breakpoint"
      [] stop_reason = "Trace" -> "step"
      [] stop_reason = "PlanComplete" -> "step"
      [] stop_reason = "Watchpoint" -> "watchpoint"
      [] stop_reason = "Signal" -> "signal"
      [] stop_reason = "Exception" -> "exception"
      [] OTHER -> "unknown"

\* C23: the `stopped` event of a process stop has all_threads_stopped=true
\* and the reason of the stopping thread's stop reason ("unknown" without a
\* stopping thread); text is the thread's stop description for watchpoint,
\* signal, exception and unknown stops of a thread, absent otherwise.
C23_StoppedEvent ==
    [][(EventTaken /\ IsStop(LastEvent')) =>
        LET m == outbound'[Len(outbound')]
            e == LastEvent'
        IN  /\ Len(outbound') > Len(outbound)
            /\ IsEvent(m, "stopped")
            /\ m.data[1].all_threads_stopped = Some(TRUE)
            /\ IF WithReason(e) = {}
               THEN /\ m.data[1].reason = "unknown"
                    /\ m.data[1].text = None
                    /\ m.data[1].thread_id = None
               ELSE LET t == StoppingThread(e)
                    IN  /\ m.data[1].thread_id = Some(t.id)
                        /\ m.data[1].reason = ReasonOf(t.reason)
                        /\ m.data[1].text =
                               IF ReasonOf(t.reason) \in {"breakpoint", "step"}
                               THEN None ELSE Some(t.description)
    ]_vars

\* C23 witness: a stop whose selected thread has no stop reason was
\* reported for thread 2, stopped by a signal, with its description.
C23_Witness ==
    /\ engine_events # << >>
    /\ IsStop(LastEvent)
    /\ LastEvent.sel = 1
    /\ outbound[Len(outbound)] =
           EventMsg("stopped", Some([all_threads_stopped |-> Some(TRUE),
                                     reason |-> "signal", text |-> Some(<<"d", "2">>),
                                     thread_id |-> Some(2)]))

IsThreadEvent(m) == IsEvent(m, "thread")
ThreadEvents(q) == SelectSeq(q, IsThreadEvent)
ThreadIdsOf(e) == {e.threads[i].id : i \in 1..Len(e.threads)}
\* The thread set a front-end keeps by applying the first n thread events.
RECURSIVE Replay(_, _)
Replay(q, n) ==
    IF n = 0 THEN {}
    ELSE IF q[n].data[1].reason = "started"
    THEN Replay(q, n - 1) \cup {q[n].data[1].thread_id}
    ELSE Replay(q, n - 1) \ {q[n].data[1].thread_id}

\* C24: after a stop notification known_threads is the engine's thread-id
\* set of that stop, and the notification's thread events are one `exited`
\* per id of (old known_threads \ new set) followed by one `started` per id
\* of (new set \ old known_threads); over the run each id's events
\* alternate started, exited, ..., and replaying every thread event gives
\* known_threads; this for the steps whose sends the channel took.
C24_ThreadDeltas ==
    [][~ChannelFull =>
       /\ (EventTaken /\ IsStop(LastEvent')) =>
           LET ids == ThreadIdsOf(LastEvent')
               gone == known_threads \ ids
               new == ids \ known_threads
               tev == ThreadEvents(NewMessages)
               n == Cardinality(gone)
           IN  /\ known_threads' = ids
               /\ Len(tev) = n + Cardinality(new)
               /\ \A i \in 1..Len(tev) :
                      tev[i].data[1].reason = IF i <= n THEN "exited" ELSE "started"
               /\ {tev[i].data[1].thread_id : i \in 1..n} = gone
               /\ {tev[i].data[1].thread_id : i \in (n + 1)..Len(tev)} = new
       /\ LET all == ThreadEvents(outbound')
          IN  /\ Replay(all, Len(all)) = known_threads'
              /\ \A i \in 1..Len(all) :
                     (all[i].data[1].reason = "started") <=>
                         all[i].data[1].thread_id \notin Replay(all, i - 1)
    ]_vars

\* C24 witness: a second stop at which thread 1 was gone and thread 2 was
\* new sent exited(1) and then started(2), and known_threads is {2}.
C24_Witness ==
    /\ engine_events # << >>
    /\ IsStop(LastEvent)
    /\ known_threads = {2}
    /\ LET all == ThreadEvents(outbound)
       IN  /\ Len(all) = 3
           /\ all[2].data[1] = [thread_id |-> 1, reason |-> "exited"]
           /\ all[3].data[1] = [thread_id |-> 2, reason |-> "started"]

IsModulesEvent(e) == e.kind = "target" /\ e.modules_loaded
\* The modules of the first n engine events, in arrival order.
RECURSIVE ArrivedModules(_, _)
ArrivedModules(events, n) ==
    IF n = 0 THEN << >>
    ELSE ArrivedModules(events, n - 1)
             \o (IF IsModulesEvent(events[n]) THEN events[n].modules ELSE << >>)
\* The modules the first n calls on the engine passed to the interpreter.
RECURSIVE PassedModules(_, _)
PassedModules(calls, n) ==
    IF n = 0 THEN << >>
    ELSE PassedModules(calls, n - 1)
             \o (IF calls[n].call = "modules_loaded" THEN calls[n].modules ELSE << >>)

\* C25: handling a target event passes nothing to the script interpreter;
\* a stop notification passes the modules that arrived since the last one,
\* once and in arrival order, after it has sent `stopped` (when the channel
\* took it), and leaves loaded_modules empty; so every module that arrived was passed exactly
\* once or is still waiting, in arrival order.
C25_ModulesDeferred ==
    [][/\ (EventTaken /\ LastEvent'.kind = "target") => engine_calls' = engine_calls
       /\ (EventTaken /\ IsStop(LastEvent') /\ ~ChannelFull) =>
              /\ loaded_modules' = << >>
              /\ Len(engine_calls') = Len(engine_calls) + 1
              /\ LET c == engine_calls'[Len(engine_calls')]
                 IN  /\ c.call = "modules_loaded"
                     /\ c.modules = loaded_modules
                     /\ c.sent = Len(outbound')
                     /\ IsEvent(outbound'[c.sent], "stopped")
       /\ PassedModules(engine_calls', Len(engine_calls')) \o loaded_modules'
              = ArrivedModules(engine_events', Len(engine_events'))
       /\ NoDuplicates(ArrivedModules(engine_events', Len(engine_events')))
    ]_vars

\* C25 witness: the modules of two target events were passed together, in
\* arrival order, by the stop that followed them.
C25_Witness ==
    /\ engine_events # << >>
    /\ IsStop(LastEvent)
    /\ loaded_modules = << >>
    /\ engine_calls # << >>
    /\ LET c == engine_calls[Len(engine_calls)]
       IN  /\ c.call = "modules_loaded"
           /\ Len(c.modules) = 4
           /\ c.modules[1].event < c.modules[3].event
           /\ c.modules = ArrivedModules(engine_events, Len(engine_events))

\* -------------------------------------------------------- displaySettings
\* C26: a displaySettings request sets each display setting from its
\* argument if the argument is present (display_format Auto gives the
\* default format; show_disassembly Auto / Always / Never give None /
\* Some(true) / Some(false)) and keeps it otherwise; breakpoints, handle
\* tree, known_threads, the pending responder and the rest of the session
\* keep their values; the same request handled again changes no setting.
C26_DisplaySettingsFrame ==
    [][(Handled /\ last'.cmd = "displaySettings") =>
        LET a == last'.args
        IN  /\ global_format' =
                   CASE a.display_format = None -> global_format
                     [] a.display_format = Some("Auto") -> "Default"
                     [] OTHER -> a.display_format[1]
            /\ show_disassembly' =
                   CASE a.show_disassembly = None -> show_disassembly
                     [] a.show_disassembly = Some("Auto") -> None
                     [] a.show_disassembly = Some("Always") -> Some(TRUE)
                     [] a.show_disassembly = Some("Never") -> Some(FALSE)
            /\ deref_pointers' =
                   IF a.dereference_pointers = None THEN deref_pointers
                   ELSE a.dereference_pointers[1]
            /\ container_summary' =
                   IF a.container_summary = None THEN container_summary
                   ELSE a.container_summary[1]
            /\ UNCHANGED << debugger, target, process, process_launched,
                            on_configuration_done, source_breakpoints,
                            fn_breakpoints, breakpoints, var_refs, shutdown,
                            known_threads, loaded_modules, engine_bps,
                            engine_threads, engine_selected >>
            /\ (last.cmd = "displaySettings" /\ last.args = a) =>
                   UNCHANGED display_state
    ]_vars

\* C26 witness: with a breakpoint set, frames listed and thread 1 known,
\* a request for hexadecimal display was handled twice; the settings it
\* does not name have their initial values.
C26_Witness ==
    /\ ~aborted
    /\ Len(received) = 7
    /\ received[6] = received[7]
    /\ last.cmd = "displaySettings"
    /\ Present(last.args) = {"display_format"}
    /\ global_format = "Hex"
    /\ show_disassembly = None /\ deref_pointers /\ container_summary
    /\ breakpoints # EmptyMap
    /\ var_refs.entries # EmptyMap
    /\ known_threads = {1}

\* ------------------------------------------------------------ expressions
FormatLetters == {"x", "h", "o", "d", "b", "f", "p", "u", "s", "y", "Y"}
FormatNamed(ch) ==
    CASE ch = "x" -> "Hex" [] ch = "h" -> "Hex" [] ch = "o" -> "Octal"
      [] ch = "d" -> "Decimal" [] ch = "b" -> "Binary" [] ch = "f" -> "Float"
      [] ch = "p" -> "Pointer" [] ch = "u" -> "Unsigned" [] ch = "s" -> "CString"
      [] ch = "y" -> "Bytes" [] ch = "Y" -> "BytesWithASCII"
\* The expressions e is a format-suffixed form of: body with e = body,<ch>.
Suffixed(e) ==
    {body \in {SubSeq(e, 1, k) : k \in 0..Len(e)} :
        \E ch \in FormatLetters : e = body \o <<",", ch>>}
\* The part of s after the prefix p, if s starts with p.
Rest(s, p) ==
    IF \E r \in {SubSeq(s, k, Len(s)) : k \in 1..(Len(s) + 1)} : s = p \o r
    THEN Some(SubSeq(s, Len(p) + 1, Len(s)))
    ELSE None
Classified(s) ==
    IF Rest(s, <<"/", "n", "a", "t", " ">>) # None
    THEN [expr |-> Rest(s, <<"/", "n", "a", "t", " ">>)[1], ty |-> "Native"]
    ELSE IF Rest(s, <<"/", "p", "y", " ">>) # None
    THEN [expr |-> Rest(s, <<"/", "p", "y", " ">>)[1], ty |-> "Python"]
    ELSE IF Rest(s, <<"/", "s", "e", " ">>) # None
    THEN [expr |-> Rest(s, <<"/", "s", "e", " ">>)[1], ty |-> "Simple"]
    ELSE [expr |-> s, ty |-> "Simple"]
IsEvaluation == Handled /\ last'.cmd = "evaluate" /\ last'.args.context = "watch"

\* C27: an evaluated expression that ends with a comma and a format letter
\* is parsed into the expression without its last two characters and the
\* letter's format (x and h: Hex); any other expression is parsed into
\* itself and no format. The value is rendered in the parsed format, or in
\* global_format without one, and global_format keeps its value.
C27_FormatSuffix ==
    [][IsEvaluation =>
        LET e == last'.args.expression
            parsed == get_expr_format(e)
            m == outbound'[Len(outbound')]
        IN  /\ \A body \in Suffixed(e) :
                   /\ Len(body) = Len(e) - 2
                   /\ parsed = [expr |-> body, format |-> Some(FormatNamed(e[Len(e)]))]
            /\ Suffixed(e) = {} => parsed = [expr |-> e, format |-> None]
            /\ m.success =>
                   m.data[1].format = IF Suffixed(e) = {} THEN global_format
                                      ELSE FormatNamed(e[Len(e)])
            /\ global_format' = global_format
    ]_vars

\* C27 witness: with decimal display set, "x,h" was evaluated and rendered
\* in Hex, and the display format is still Decimal.
C27_Witness ==
    /\ last.cmd = "evaluate"
    /\ last.args.expression = <<"x", ",", "h">>
    /\ global_format = "Decimal"
    /\ outbound[Len(outbound)].success
    /\ outbound[Len(outbound)].data[1].format = "Hex"
    /\ engine_calls[Len(engine_calls)].expr = <<"x">>

\* C28: every expression is classified, by one prefix that is stripped:
\* "/nat " Native, "/py " Python, "/se " Simple, anything else Simple and
\* unchanged. An evaluation evaluates its expression (after the format
\* suffix is parsed off) as classified, and a breakpoint condition becomes
\* the engine condition if Native and the callback's expression otherwise.
C28_Classification ==
    [][/\ IsEvaluation =>
              LET k == Classified(get_expr_format(last'.args.expression).expr)
              IN  /\ Len(engine_calls') = Len(engine_calls) + 1
                  /\ engine_calls'[Len(engine_calls')] =
                         [call |-> "evaluate", expr |-> k.expr, ty |-> k.ty]
       /\ (Handled /\ last'.cmd = "setBreakpoints" /\ ~aborted'
             /\ last'.args.breakpoints # None /\ last'.args.breakpoints[1] # << >>
             /\ last'.args.breakpoints[1][1].condition # None) =>
              LET k == Classified(last'.args.breakpoints[1][1].condition[1])
                  bp == engine_bps'[engine_next_bp]
              IN  /\ engine_next_bp' = engine_next_bp + 1
                  /\ IF k.ty = "Native"
                     THEN bp.condition = Some(k.expr) /\ bp.callback = None
                     ELSE bp.condition = None /\ bp.callback = Some(k)
    ]_vars

\* C28 witness: the condition "/nat /py x" became the native engine
\* condition "/py x": one prefix was stripped.
C28_Witness ==
    /\ last.cmd = "setBreakpoints"
    /\ last.args.breakpoints[1][1].condition =
           Some(<<"/", "n", "a", "t", " ", "/", "p", "y", " ", "x">>)
    /\ \E id \in DOMAIN engine_bps :
           /\ engine_bps[id].condition = Some(<<"/", "p", "y", " ", "x">>)
           /\ engine_bps[id].callback = None

\* ----------------------------------------------------- resolved locations
\* C29: every location of a source breakpoint that lies in a file other
\* than the one the breakpoint was requested for is disabled.
C29_ForeignLocationsDisabled ==
    \A id \in DOMAIN engine_bps :
        LET bp == engine_bps[id]
        IN  bp.kind = "Source" =>
                \A i \in 1..Len(bp.locs) :
                    (bp.locs[i].path # None /\ bp.locs[i].path # bp.file_path) =>
                        ~bp.locs[i].enabled

\* C30: the resolved_line recorded for a source breakpoint with several
\* locations is the line of the first location that was accepted (left
\* enabled), in the engine's location order.
C30_FirstLocationLine ==
    \A id \in (DOMAIN engine_bps) \cap (DOMAIN breakpoints) :
        LET bp == engine_bps[id]
            accepted == {i \in 1..Len(bp.locs) :
                            bp.locs[i].enabled /\ bp.locs[i].line # None}
        IN  (bp.kind = "Source" /\ accepted # {}) =>
                breakpoints[id].resolved_line =
                    bp.locs[CHOOSE i \in accepted : \A j \in accepted : i <= j].line

\* -------------------------------------------------- breakpoint conditions
IsBpRequest == Handled /\ ~aborted'
                   /\ last'.cmd \in {"setBreakpoints", "setFunctionBreakpoints"}
RequestedBps(req) ==
    IF req.cmd = "setBreakpoints" THEN req.args.breakpoints[1]
    ELSE req.args.breakpoints

\* C31: when a request gives a breakpoint a Simple or Python condition,
\* the engine breakpoint has a callback and no native condition afterwards,
\* whatever condition it carried before.
C31_CallbackReplacesCondition ==
    [][IsBpRequest =>
        LET reqs == RequestedBps(last')
            resp == outbound'[Len(outbound')].data[1]
        IN  \A i \in 1..Len(reqs) :
                (reqs[i].condition # None
                    /\ Classified(reqs[i].condition[1]).ty \in {"Simple", "Python"}) =>
                    LET bp == engine_bps'[resp[i].id[1]]
                    IN  /\ bp.callback = Some(Classified(reqs[i].condition[1]))
                        /\ bp.condition = None
    ]_vars

\* C38: the condition the registry holds for a live breakpoint is that of
\* the most recent request naming it, and the engine breakpoint carries
\* that condition only: a native condition iff it is Native, a callback
\* iff it is Simple or Python, neither if it is absent.
C38_LatestConditionOnly ==
    \A id \in (DOMAIN breakpoints) \cap (DOMAIN engine_bps) :
        LET c == breakpoints[id].condition
            bp == engine_bps[id]
        IN  IF c = None THEN bp.condition = None /\ bp.callback = None
            ELSE IF Classified(c[1]).ty = "Native"
            THEN bp.condition = Some(Classified(c[1]).expr) /\ bp.callback = None
            ELSE bp.condition = None /\ bp.callback = Some(Classified(c[1]))

\* The number a condition result stands for, if it is one.
IsNumber(result) ==
    \/ result.kind = "Int"
    \/ result.kind = "SBValue" /\ result.unsigned # None
NumberOf(result) == IF result.kind = "Int" THEN result.val ELSE result.unsigned[1]

\* C32: the condition callback says stop exactly when the evaluation
\* failed, gave a number other than zero, or gave the boolean true; a
\* zero, of an engine value or of a plain integer, and false do not stop.
C32_StopOnErrorOrTruth ==
    [][(Len(engine_calls') = Len(engine_calls) + 1
          /\ engine_calls'[Len(engine_calls')].call = "bp_callback") =>
        LET c == engine_calls'[Len(engine_calls')]
        IN  c.stop <=> \/ c.result.kind = "Err"
                       \/ IsNumber(c.result) /\ NumberOf(c.result) # 0
                       \/ c.result = [kind |-> "Bool", val |-> TRUE]
    ]_vars

\* --------------------------------------------------------------- resuming
\* C33: a continue, next, stepIn, stepOut or pause that reached the engine
\* is answered with success exactly when the engine performed it; a refusal
\* is answered with success=false and the engine's message.
C33_EngineErrorsReported ==
    [][(Handled /\ last'.cmd \in {"continue", "next", "stepIn", "stepOut", "pause"}
          /\ Len(process_calls') = Len(process_calls) + 1) =>
        LET m == outbound'[Len(outbound')]
            c == process_calls'[Len(process_calls')]
        IN  /\ IsResponse(m)
            /\ m.request_seq = last'.seq
            /\ m.success <=> c.ok
            /\ ~c.ok => m.message = Some("engine error")
    ]_vars

\* ----------------------------------------------------------- stack frames
IsStackTrace ==
    Handled /\ last'.cmd = "stackTrace" /\ process
        /\ last'.args.thread_id \in engine_threads

\* C34: a stackTrace for start_frame s and levels l (absent: no bound)
\* answers with the valid frames s, s+1, ... below s+l, in that order, each
\* under a handle created for it by this request.
C34_FrameWindow ==
    [][IsStackTrace =>
        /\ ~aborted'
        /\ LET a == last'.args
               s == IF a.start_frame = None THEN 0 ELSE a.start_frame[1]
               frames == engine_calls'[Len(engine_calls')].frames
               below == IF a.levels = None \/ s + a.levels[1] > Len(frames)
                        THEN Len(frames) ELSE s + a.levels[1]
               window == IF below > s THEN below - s ELSE 0
               m == outbound'[Len(outbound')]
           IN  /\ m.success /\ m.request_seq = last'.seq
               /\ Len(m.data[1]) = window
               /\ \A j \in 1..window :
                      LET id == m.data[1][j].id
                      IN  /\ HandleTreeGet(var_refs, id) = None
                          /\ HandleTreeGet(var_refs', id) =
                                 Some([kind |-> "StackFrame", frame |-> s + j - 1])
                          /\ \A k \in 1..window : m.data[1][k].id = id => k = j
    ]_vars

\* C35: every frame of a stackTrace Response has a source. With
\* show_disassembly Never, or auto and a line entry of an existing local
\* file, it is the local file; otherwise it is a disassembly.
C35_EveryFrameHasSource ==
    [][(IsStackTrace /\ ~aborted') =>
        LET a == last'.args
            s == IF a.start_frame = None THEN 0 ELSE a.start_frame[1]
            frames == engine_calls'[Len(engine_calls')].frames
            m == outbound'[Len(outbound')]
        IN  \A j \in 1..Len(m.data[1]) :
                LET f == frames[s + j]
                    in_source == \/ show_disassembly = Some(FALSE)
                                 \/ show_disassembly = None /\ f.line_entry /\ f.local
                IN  /\ m.data[1][j].source # None
                    /\ m.data[1][j].source[1].kind =
                           IF in_source THEN "local" ELSE "disassembly"
    ]_vars

\* ------------------------------------------------------ deferred launch
\* The engine calls made by the last step.
NewCalls == SubSeq(engine_calls', Len(engine_calls) + 1, Len(engine_calls'))
RespondsDeferred ==
    Handled /\ last'.cmd = "configurationDone" /\ on_configuration_done # None

\* C36: the deferred responder of a launch runs pre_run_commands, then
\* launches the process; a successful launch is followed by process and
\* process_launched being set, post_run_commands and the storing of
\* exit_commands, and the launch is answered with success; an invalid
\* source map or a failed launch is answered with success=false and leaves
\* process, process_launched and exit_commands as they were; either way
\* configurationDone itself is answered with success. The two Responses
\* are the last messages of the step, after the output event of the
\* launch's display settings and its runInTerminal Request, if any.
C36_LaunchOrder ==
    [][RespondsDeferred =>
        LET slot == on_configuration_done[1]
            pre == exec_commands(<< >>, commands_of(slot.args, "pre_run_commands"))
            post == exec_commands(<< >>, commands_of(slot.args, "post_run_commands"))
            ok == \E i \in 1..Len(NewCalls) :
                      NewCalls[i].call = "launch" /\ NewCalls[i].ok
            replies == Responses(NewMessages)
        IN  /\ Len(replies) = 2
            /\ replies = SubSeq(NewMessages, Len(NewMessages) - 1, Len(NewMessages))
            /\ replies[1].request_seq = slot.seq
            /\ replies[2] = ResponseMsg(last'.seq, Ok("configurationDone", None))
            /\ \/ /\ ok
                  /\ slot.args.source_map # "invalid"
                  /\ NewCalls = pre \o << [call |-> "launch", ok |-> TRUE] >> \o post
                  /\ process' /\ process_launched'
                  /\ exit_commands' = commands_of(slot.args, "exit_commands")
                  /\ replies[1] = ResponseMsg(slot.seq, Ok("launch", None))
               \/ /\ ~ok
                  /\ \/ NewCalls = pre
                     \/ /\ slot.args.source_map # "invalid"
                        /\ NewCalls = Append(pre, [call |-> "launch", ok |-> FALSE])
                  /\ ~replies[1].success
                  /\ UNCHANGED << process, process_launched, exit_commands >>
    ]_vars

\* C36 witness: a launch with every command list was completed: the
\* commands ran around the launch and exit_commands are stored.
C36_Witness ==
    /\ Len(received) = 3
    /\ last.cmd = "configurationDone"
    /\ engine_calls = << [call |-> "command", cmd |-> <<"init">>],
                         [call |-> "command", cmd |-> <<"pre">>],
                         [call |-> "launch", ok |-> TRUE],
                         [call |-> "command", cmd |-> <<"post1">>],
                         [call |-> "command", cmd |-> <<"post2">>] >>
    /\ process /\ process_launched
    /\ exit_commands = Some(<< <<"exit">> >>)

\* Whether the i-th request is a launch that stored a responder which has
\* not been answered yet.
Pending(i) ==
    /\ i \in 1..Len(received)
    /\ received[i].cmd = "launch"
    /\ \A k \in 1..Len(outbound) :
           ~(IsResponse(outbound[k]) /\ outbound[k].request_seq = i)

\* C37: when a configurationDone is handled, every launch that was
\* accepted and not answered yet receives its Response.
C37_NoResponderLost ==
    [][(Handled /\ last'.cmd = "configurationDone") =>
        \A i \in 1..Len(received) :
            Pending(i) =>
                \E k \in 1..Len(NewMessages) :
                    IsResponse(NewMessages[k]) /\ NewMessages[k].request_seq = i
    ]_vars

\* ------------------------------------------------- stopped while stopped
\* The state the engine last reported for the process, once it reported one.
ReportedState(events) == process_state_after(events, Len(events))

\* C39: a `stopped` event is sent only while the process is Stopped or
\* Crashed, as far as the engine has reported its state: no step sends one
\* for a process last reported Running, Exited or otherwise not stopped.
C39_StoppedOnlyWhenStopped ==
    [][(\E k \in 1..Len(NewMessages) : IsEvent(NewMessages[k], "stopped")) =>
        ReportedState(engine_events') \in {"Launching", "Stopped", "Crashed"}
    ]_vars

\* ---------------------------------------------------- absent arguments
IsAbsent(request) == "absent" \in DOMAIN request

\* C40: a request without arguments, whatever its command and the stage of
\* the session, is handled as a disconnect: the stored exit_commands run,
\* an initialized process is killed when the session launched it and
\* detached otherwise, cancellation is requested and the one message sent
\* is a success Response with the disconnect body under the request's seq.
C40_AbsentArgumentsDisconnect ==
    [][(Handled /\ IsAbsent(received'[Len(received')])) =>
        /\ ~aborted'
        /\ NewCalls = IF exit_commands = None THEN << >>
                      ELSE [i \in 1..Len(exit_commands[1]) |->
                               [call |-> "command", cmd |-> exit_commands[1][i]]]
        /\ IF process
           THEN /\ Len(process_calls') = Len(process_calls) + 1
                /\ SubSeq(process_calls', 1, Len(process_calls)) = process_calls
                /\ process_calls'[Len(process_calls')].call =
                       IF process_launched THEN "kill" ELSE "detach"
           ELSE process_calls' = process_calls
        /\ shutdown'
        /\ NewMessages = << ResponseMsg(last'.seq, Ok("disconnect", None)) >>
        /\ NewMessages[1].success /\ NewMessages[1].request_seq = last'.seq
    ]_vars

\* C40 witness: a threads request without arguments arrived in a launched
\* session: the exit commands ran, the process was killed, cancellation is
\* requested and the request was answered with a disconnect body.
C40_Witness ==
    /\ Len(received) = 4
    /\ last.cmd = "threads" /\ IsAbsent(received[4])
    /\ process /\ process_launched /\ shutdown
    /\ exit_commands = Some(<< <<"exit1">>, <<"exit2">> >>)
    /\ engine_calls = << [call |-> "launch", ok |-> TRUE],
                         [call |-> "command", cmd |-> <<"exit1">>],
                         [call |-> "command", cmd |-> <<"exit2">>] >>
    /\ process_calls = << [call |-> "kill", ok |-> FALSE] >>
    /\ outbound[Len(outbound)] = ResponseMsg(4, Ok("disconnect", None))

====
